---- MODULE Spec2Model ----
(***************************************************************************)
(* Model of the AI orchestration layer of smart_todo                       *)
(* (backend/smartTodo/tasks/ai_service.py): the LM Studio client with its  *)
(* retry loop, the JSON extractor, the three breaker-wrapped operations of  *)
(* AITaskManager, their fallback heuristics, get_task_recommendations and   *)
(* the module-level pybreaker CircuitBreaker shared by all callers.         *)
(*                                                                         *)
(* Conventions.  Python values that travel through dicts are JSON values,   *)
(* modelled as records of one uniform shape [t, n, s, l] (see JNull ...).   *)
(* Scores are integers in hundredths (0.8 is 80).  A text is a sequence of  *)
(* tokens: "{", "}", "x" (a character of prose), a JSON value that is not  *)
(* an object ("[]", "7", "\"ok\"", "true", "null": ScalarTable) and member  *)
(* tokens, each standing for one "key": value pair of an object             *)
(* (MemberTable).  Deadlines are hours relative to the moment               *)
(* timezone.now() is read.                                                  *)
(***************************************************************************)
EXTENDS Integers, Sequences, FiniteSets, TLC

VARIABLES
    breaker,    \* ai_breaker: [state, fail_counter, opened_at]
    lock,       \* owner of ai_breaker's lock (0: free)
    now,        \* wall clock, seconds
    pc,         \* per caller: "idle", "enter", "body", "exit", "done"
    op,         \* per caller: the public operation it called
    args,       \* per caller: the arguments of that call
    step,       \* per caller: the breaker-wrapped method it is in or waits for
    out,        \* per caller: outcome of the method body, before the breaker handles it
    sub,        \* per caller: outcomes of the sub-steps of get_task_recommendations
    ret,        \* per caller: what the public operation gave its caller
    log,        \* per caller: the _log_processing calls of its current call, each with
                \* its row and whether AIProcessingLog stored it
    reqs,       \* per caller: HTTP attempts made by its current call (what each met)
    slept,      \* per caller: backoff delays slept by its current call
    transientRun, \* consecutive completed method calls whose attempts all failed transiently
    failRun,    \* exceptions the breaker counted since the last call it took for a success
    fb,         \* inputs and result of the fallback-prioritization runs (SpecFallback)
    cl,         \* backend behaviour and result of one _make_request call (SpecClient)
    ex,         \* a response text, what the extractor made of it and the default-filled
                \* results (SpecExtract)
    fe,         \* a task_data dict and what _fallback_enhancement made of it (SpecEnhance)
    dl,         \* a task, the current time and the deadline the fallback engine suggests (SpecDeadline)
    rc,         \* the Task table, the options and the outcome of one recalculate_priorities run (SpecRecalc)
    calls,      \* per caller: the breaker-wrapped methods it invoked since its call, each with the context argument
    ce,         \* the ContextEntry table and the runs of process_context_entries (SpecProcess)
    task_score, \* Task.priority_score of the task the prioritization view works on, in hundredths (SpecView)
    tk          \* a Task instance and the clock timezone.now() reads: [status, completed_at, saves, saved_at, clock] (SpecTask)

vars == <<breaker, lock, now, pc, op, args, step, out, sub, ret, log, reqs, slept,
          transientRun, failRun, fb, cl, ex, fe, dl, rc, calls, ce, task_score, tk>>

----------------------------------------------------------------------------
(* Bounds of the model *)

NumCallers == 2        \* concurrent callers (request handlers, commands)
TicksPerTimeout == 2   \* clock ticks per reset_timeout
MaxTicks == 5          \* the clock stops after this many ticks

(* Program constants *)

FailMax == 3           \* CircuitBreaker(fail_max=3)
ResetTimeout == 60     \* CircuitBreaker(reset_timeout=60)
max_retries == 3       \* LMStudioClient.max_retries
retry_delay == 2       \* LMStudioClient.retry_delay
max_fallback_priority_score == 80   \* AITaskManager.max_fallback_priority_score = 0.8
\* Task.priority_score: default=0.5
priority_score_default == 50

Callers == 1..NumCallers
TickLen == ResetTimeout \div TicksPerTimeout
MaxTime == MaxTicks * TickLen

----------------------------------------------------------------------------
(* JSON / Python values *)

JNull == [t |-> "null", n |-> 0, s |-> "", l |-> <<>>]
JNum(x) == [t |-> "num", n |-> x, s |-> "", l |-> <<>>]
JStr(x) == [t |-> "str", n |-> 0, s |-> x, l |-> <<>>]
JBool(b) == [t |-> "bool", n |-> IF b THEN 1 ELSE 0, s |-> "", l |-> <<>>]
JList(xs) == [t |-> "list", n |-> 0, s |-> "", l |-> xs]
JDict(name) == [t |-> "dict", n |-> 0, s |-> name, l |-> <<>>]
\* a str made of words or tokens (a title, a raw response)
JWords(ws) == [t |-> "str", n |-> 0, s |-> "", l |-> ws]
\* a datetime, h hours after the moment timezone.now() is read
JDateTime(h) == [t |-> "datetime", n |-> h, s |-> "", l |-> <<>>]
\* an ISO string that parse_datetime turns into JDateTime(h)
JIso(h) == [t |-> "str", n |-> h, s |-> "iso", l |-> <<>>]

IsNone(v) == v.t = "null"
\* Python truthiness
Truthy(v) ==
    CASE v.t = "null" -> FALSE
      [] v.t = "num" -> v.n # 0
      [] v.t = "bool" -> v.n = 1
      [] v.t = "str" -> v.s # "" \/ v.l # <<>>
      [] v.t = "list" -> v.l # <<>>
      [] OTHER -> TRUE

EmptyDict == [k \in {} |-> JNull]
\* dict.get(key, default)
Get(d, k, default) == IF k \in DOMAIN d THEN d[k] ELSE default
\* d with d[k] = v
Put(d, k, v) == [x \in (DOMAIN d) \cup {k} |-> IF x = k THEN v ELSE d[x]]

----------------------------------------------------------------------------
(* Texts and the extractor *)

MemberTable ==
    [ score_ok |-> [k |-> "priority_score", v |-> JNum(60)],
      score_hi |-> [k |-> "priority_score", v |-> JNum(170)],
      score_neg |-> [k |-> "priority_score", v |-> JNum(-20)],
      score_str |-> [k |-> "priority_score", v |-> JStr("n/a")],
      score_null |-> [k |-> "priority_score", v |-> JNull],
      reasoning |-> [k |-> "reasoning", v |-> JStr("because")],
      priority_null |-> [k |-> "suggested_priority", v |-> JNull],
      desc |-> [k |-> "enhanced_description", v |-> JStr("better")],
      desc_null |-> [k |-> "enhanced_description", v |-> JNull],
      tags |-> [k |-> "suggested_tags", v |-> JList(<<"a", "b", "c", "d">>)],
      summary |-> [k |-> "context_summary", v |-> JStr("busy week")],
      themes_num |-> [k |-> "key_themes", v |-> JNum(7)],
      urgency_num |-> [k |-> "urgency_indicators", v |-> JNum(7)],
      workload_null |-> [k |-> "workload_assessment", v |-> JNull] ]

MemberTokens == DOMAIN MemberTable
\* the JSON texts that json.loads turns into a value that is not a dict
ScalarTable ==
    ("[]" :> JList(<<>>)) @@ ("7" :> JNum(7)) @@ ("\"ok\"" :> JStr("ok"))
        @@ ("true" :> JBool(TRUE)) @@ ("null" :> JNull)
ScalarTokens == DOMAIN ScalarTable
Tokens == {"{", "}", "x"} \cup ScalarTokens \cup MemberTokens

\* the object a sequence of members denotes (a repeated key keeps its last value)
RECURSIVE ObjOf(_)
ObjOf(ms) ==
    IF ms = <<>> THEN EmptyDict
    ELSE LET m == MemberTable[ms[Len(ms)]]
             rest == ObjOf(SubSeq(ms, 1, Len(ms) - 1))
         IN  Put(rest, m.k, m.v)

\* how a parsed dict shows in the field v
JObject == JDict("object")
JsonLoadsMutObjectsOnly(text) ==
    IF /\ Len(text) >= 2
       /\ text[1] = "{"
       /\ text[Len(text)] = "}"
       /\ \A i \in 2..(Len(text) - 1) : text[i] \in MemberTokens
    THEN [ok |-> TRUE, isdict |-> TRUE, d |-> ObjOf(SubSeq(text, 2, Len(text) - 1)),
          v |-> JObject]
    ELSE [ok |-> FALSE, isdict |-> FALSE, d |-> EmptyDict, v |-> JNull]
\* json.loads: [ok, isdict, d, v]; ok = FALSE stands for json.JSONDecodeError; d is
\* the parsed dict, v the parsed value when it is not a dict
JsonLoads(text) ==
    IF Len(text) = 1 /\ text[1] \in ScalarTokens
    THEN [ok |-> TRUE, isdict |-> FALSE, d |-> EmptyDict, v |-> ScalarTable[text[1]]]
    ELSE IF /\ Len(text) >= 2
            /\ text[1] = "{"
            /\ text[Len(text)] = "}"
            /\ \A i \in 2..(Len(text) - 1) : text[i] \in MemberTokens
         THEN [ok |-> TRUE, isdict |-> TRUE, d |-> ObjOf(SubSeq(text, 2, Len(text) - 1)),
               v |-> JObject]
         ELSE [ok |-> FALSE, isdict |-> FALSE, d |-> EmptyDict, v |-> JNull]

\* str.find / str.rfind of one character, 0-based, -1 when absent
Find(text, c) ==
    IF \E i \in 1..Len(text) : text[i] = c
    THEN (CHOOSE i \in 1..Len(text) : text[i] = c /\ \A j \in 1..(i - 1) : text[j] # c) - 1
    ELSE -1
RFind(text, c) ==
    IF \E i \in 1..Len(text) : text[i] = c
    THEN (CHOOSE i \in 1..Len(text) :
              text[i] = c /\ \A j \in (i + 1)..Len(text) : text[j] # c) - 1
    ELSE -1
\* response[a:b]
Slice(text, a, b) == SubSeq(text, a + 1, b)

ParseFailed(response) ==
    [isdict |-> TRUE,
     d |-> [error |-> JStr("Failed to parse JSON response"),
            raw_response |-> JWords(response)],
     v |-> JObject]
IsMarker(r) == r.isdict /\ "error" \in DOMAIN r.d /\ "raw_response" \in DOMAIN r.d

\* AITaskManager._extract_json_from_response: [isdict, d, v]
Extract(response) ==
    IF response = <<>>
    THEN [isdict |-> TRUE,
          d |-> [error |-> JStr("Empty response"), raw_response |-> JWords(response)],
          v |-> JObject]
    ELSE LET whole == JsonLoads(response)
             json_start == Find(response, "{")
             json_end == RFind(response, "}") + 1
             part == JsonLoads(Slice(response, json_start, json_end))
         IN  IF whole.ok THEN [isdict |-> whole.isdict, d |-> whole.d, v |-> whole.v]
             ELSE IF json_start # -1 /\ json_end > json_start /\ part.ok
                  THEN [isdict |-> part.isdict, d |-> part.d, v |-> part.v]
                  ELSE ParseFailed(response)

----------------------------------------------------------------------------
(* LMStudioClient._make_request *)

\* What the backend does on one HTTP attempt:
\*   "timeout"  requests.exceptions.Timeout
\*   "conn"     requests.exceptions.ConnectionError
\*   "http"     another RequestException (raise_for_status: HTTPError)
\*   "nochoices", "emptychoices", "nomessage", "nocontent"
\*              a response whose envelope lacks 'choices', has an empty 'choices', or
\*              whose first choice lacks 'message' or 'content' (ValueError)
\*   "nonstr"   a response whose content is not a string (.strip() raises AttributeError)
\*   "ok"       a response whose stripped content is text
Fail(kind) == [kind |-> kind, text |-> <<>>]
Ok(text) == [kind |-> "ok", text |-> text]
TransientKinds == {"timeout", "conn"}
BadEnvelopes == {"nochoices", "emptychoices", "nomessage", "nocontent"}

\* the except clauses that let the for loop go on to the next attempt
RetriedMutParsingToo(kind) == kind \in {"timeout", "conn", "http"} \cup BadEnvelopes
Retried(kind) == kind \in {"timeout", "conn", "http"}

\* the delay slept after failed attempt number `attempt` (0-based), if any
BackoffMutAlways(kind, attempt) ==
    IF kind \in TransientKinds THEN <<retry_delay * (attempt + 1)>> ELSE <<retry_delay>>
Backoff(kind, attempt) ==
    IF attempt < max_retries - 1
    THEN IF kind \in TransientKinds THEN <<retry_delay * (attempt + 1)>> ELSE <<retry_delay>>
    ELSE <<>>

\* the for loop from attempt `attempt` on; plan[i] is what the backend does on attempt i
\* [none, text, raised, attempts, sleeps]: none = TRUE is `return None`;
\* attempts: what each attempt made met, sleeps: the delays slept
RECURSIVE RequestLoop(_, _, _, _)
RequestLoop(plan, attempt, attempts, sleeps) ==
    IF attempt >= max_retries
    THEN [none |-> TRUE, text |-> <<>>, raised |-> "", attempts |-> attempts, sleeps |-> sleeps]
    ELSE LET r == plan[attempt + 1]
             made == Append(attempts, r.kind)
         IN  CASE r.kind = "ok" ->
                    [none |-> FALSE, text |-> r.text, raised |-> "",
                     attempts |-> made, sleeps |-> sleeps]
               [] r.kind # "ok" /\ Retried(r.kind) ->
                    RequestLoop(plan, attempt + 1, made, sleeps \o Backoff(r.kind, attempt))
               [] r.kind \in BadEnvelopes /\ ~Retried(r.kind) ->
                    [none |-> TRUE, text |-> <<>>, raised |-> "",
                     attempts |-> made, sleeps |-> sleeps]
               [] OTHER ->
                    [none |-> TRUE, text |-> <<>>, raised |-> "AttributeError",
                     attempts |-> made, sleeps |-> sleeps]

MakeRequest(plan) == RequestLoop(plan, 0, <<>>, <<>>)

\* `if not response`
NoResponse(r) == r.none \/ r.text = <<>>

----------------------------------------------------------------------------
(* AITaskManager: telemetry, results of a method body *)

\* _log_processing: one call of it, with the row it hands to
\* AIProcessingLog.objects.create; db = FALSE is a create that raises (the exception
\* is caught and logged), so the row is not stored
MaxErrorLen == 500
\* len(str(e)) of the exceptions a method body can end its try block with
MessageLen(error_message) ==
    CASE error_message.s = "No response from AI model" -> 25
      [] error_message.s = "task_data must be a dictionary" -> 30
      [] error_message.s = "AttributeError" -> 41
      [] error_message.s = "TypeError" -> 48
      [] OTHER -> 0
LogRowsMutNoError(db, processing_type, success, error_message) ==
    <<[processing_type |-> processing_type, success |-> success,
       error_message |-> JNull, error_len |-> 0, stored |-> db]>>
\* error_message=error_message[:500] if error_message else None; error_len is the
\* number of characters of the stored error_message
LogRows(db, processing_type, success, error_message) ==
    <<[processing_type |-> processing_type, success |-> success,
       error_message |-> IF Truthy(error_message) THEN error_message ELSE JNull,
       error_len |-> IF ~Truthy(error_message) THEN 0
                     ELSE IF MessageLen(error_message) > MaxErrorLen THEN MaxErrorLen
                     ELSE MessageLen(error_message),
       stored |-> db]>>

NoRequest == [none |-> TRUE, text |-> <<>>, raised |-> "", attempts |-> <<>>, sleeps |-> <<>>]

\* How a method body ended.  exc: the exception that left it ("" when it returned);
\* via: the return statement taken ("ai", "empty", "fallback", "emergency");
\* rows: what it logged; req: what its _make_request call did
ReturnedMutFallbackRaises(via, val, rows, req) ==
    IF via \in {"fallback", "emergency"}
    THEN [exc |-> "Exception", via |-> "raise", val |-> EmptyDict, rows |-> rows, req |-> req]
    ELSE [exc |-> "", via |-> via, val |-> val, rows |-> rows, req |-> req]
ReturnedMutLogRaises(via, val, rows, req) ==
    IF \E i \in 1..Len(rows) : ~rows[i].stored
    THEN [exc |-> "DatabaseError", via |-> "raise", val |-> EmptyDict, rows |-> rows, req |-> req]
    ELSE [exc |-> "", via |-> via, val |-> val, rows |-> rows, req |-> req]
Returned(via, val, rows, req) ==
    [exc |-> "", via |-> via, val |-> val, rows |-> rows, req |-> req]
Raised(exc, rows, req) ==
    [exc |-> exc, via |-> "raise", val |-> EmptyDict, rows |-> rows, req |-> req]
NoOutcome == Returned("none", EmptyDict, <<>>, NoRequest)

\* the default-fill loop: for field, default in defaults.items(): ...
FillDefaultsMutTwoPass(result, defaults) ==
    [k \in (DOMAIN result) \cup (DOMAIN defaults) |->
        IF k \in DOMAIN defaults /\ k \notin DOMAIN result THEN JNull
        ELSE IF k \in DOMAIN defaults /\ IsNone(result[k]) THEN defaults[k]
        ELSE result[k]]
FillDefaults(result, defaults) ==
    [k \in (DOMAIN result) \cup (DOMAIN defaults) |->
        IF k \in DOMAIN defaults /\ (k \notin DOMAIN result \/ IsNone(result[k]))
        THEN defaults[k]
        ELSE result[k]]

\* len(x) and ', '.join(x) raise TypeError on these
HasLen(v) == v.t \in {"str", "list", "dict"}

AiPathErrorMutMarkerFails(req, nondictError) ==
    IF req.raised # "" THEN req.raised
    ELSE IF NoResponse(req) THEN "No response from AI model"
    ELSE IF ~Extract(req.text).isdict THEN nondictError
    ELSE IF IsMarker(Extract(req.text)) THEN "Failed to parse JSON response"
    ELSE ""
\* the exception the AI path raises before logging, "" when it gets through:
\* the client raised, gave nothing, or the parsed value is not a dict
AiPathError(req, nondictError) ==
    IF req.raised # "" THEN req.raised
    ELSE IF NoResponse(req) THEN "No response from AI model"
    ELSE IF ~Extract(req.text).isdict THEN nondictError
    ELSE ""

----------------------------------------------------------------------------
(* AITaskManager.analyze_context *)

EmptyAnalysis ==
    [extracted_tasks |-> JList(<<>>), urgency_indicators |-> JList(<<>>),
     mentioned_deadlines |-> JList(<<>>), priority_signals |-> JDict("empty signals"),
     context_summary |-> JStr("No context provided"),
     workload_assessment |-> JStr("light"), key_themes |-> JList(<<>>)]

AnalysisDefaults ==
    [extracted_tasks |-> JList(<<>>), urgency_indicators |-> JList(<<>>),
     mentioned_deadlines |-> JList(<<>>), priority_signals |-> JDict("empty signals"),
     context_summary |-> JStr("Analysis completed"),
     workload_assessment |-> JStr("moderate"), key_themes |-> JList(<<>>)]

AnalysisErrorResult(e) ==
    [error |-> JStr(e),
     extracted_tasks |-> JList(<<>>), urgency_indicators |-> JList(<<>>),
     mentioned_deadlines |-> JList(<<>>), priority_signals |-> JDict("empty signals"),
     context_summary |-> JStr("Analysis failed - using fallback"),
     workload_assessment |-> JStr("moderate"), key_themes |-> JList(<<>>)]

\* context_entries is "None", "empty" (an empty list) or "some" (a list of entries)
AnalyzeContext(context_entries, plan, db) ==
    IF context_entries = "None" THEN Raised("TypeError", <<>>, NoRequest)
    ELSE IF context_entries = "empty" THEN Returned("empty", EmptyAnalysis, <<>>, NoRequest)
    ELSE LET req == MakeRequest(plan)
             e == AiPathError(req, "TypeError")
         IN  IF e = ""
             THEN Returned("ai", FillDefaults(Extract(req.text).d, AnalysisDefaults),
                           LogRows(db, "context_analysis", TRUE, JNull), req)
             ELSE Returned("fallback", AnalysisErrorResult(e),
                           LogRows(db, "context_analysis", FALSE, JStr(e)), req)

----------------------------------------------------------------------------
(* AITaskManager.prioritize_task and _fallback_prioritization *)

\* a task is [title, description, priority, deadline, estimated_duration]

\* priority_scores.get(current_priority, 0.5)
BaseScoreMutOtherTable(priority) ==
    CASE priority = JStr("low") -> 25
      [] priority = JStr("medium") -> 50
      [] priority = JStr("high") -> 75
      [] priority = JStr("urgent") -> 95
      [] OTHER -> 50
BaseScore(priority) ==
    CASE priority = JStr("low") -> 30
      [] priority = JStr("medium") -> 50
      [] priority = JStr("high") -> 70
      [] priority = JStr("urgent") -> 90
      [] OTHER -> 50

Min(a, b) == IF a <= b THEN a ELSE b
Max(a, b) == IF a >= b THEN a ELSE b

\* (deadline - now).days for a datetime, the default assumption 1 otherwise
DaysUntil(deadline) == IF deadline.t = "datetime" THEN deadline.n \div 24 ELSE 1

\* the score after the deadline adjustment
DeadlineBoostMutNoCeiling(score, deadline) ==
    IF ~Truthy(deadline) THEN score
    ELSE LET days_until == DaysUntil(deadline)
         IN  IF days_until <= 0 THEN score + 30
             ELSE IF days_until <= 2 THEN score + 20
             ELSE IF days_until <= 7 THEN score + 10
             ELSE score
DeadlineBoost(score, deadline) ==
    IF ~Truthy(deadline) THEN score
    ELSE LET days_until == DaysUntil(deadline)
         IN  IF days_until <= 0 THEN Min(score + 30, max_fallback_priority_score)
             ELSE IF days_until <= 2 THEN Min(score + 20, max_fallback_priority_score)
             ELSE IF days_until <= 7 THEN Min(score + 10, max_fallback_priority_score)
             ELSE score

\* str(deadline)
StrOf(v) == IF v.t = "datetime" THEN JIso(v.n) ELSE v

EmergencyPrioritization(e) ==
    [priority_score |-> JNum(50), suggested_priority |-> JStr("medium"),
     reasoning |-> JStr("Emergency fallback - minimal processing"),
     urgency_factors |-> JList(<<"Emergency fallback">>),
     suggested_deadline |-> JNull, estimated_duration_refined |-> JNull,
     context_relevance |-> JStr("Emergency fallback mode"),
     recommended_actions |-> JList(<<>>), is_fallback |-> JBool(TRUE),
     error |-> JStr(e)]

\* [via, val]; a priority that cannot be a dict key (a list) raises TypeError in
\* priority_scores.get and ends in the emergency result
FallbackPrioritization(task) ==
    IF task.priority.t \in {"list", "dict"}
    THEN [via |-> "emergency", val |-> EmergencyPrioritization("TypeError")]
    ELSE [via |-> "fallback",
          val |-> [priority_score |-> JNum(DeadlineBoost(BaseScore(task.priority),
                                                          task.deadline)),
                   suggested_priority |-> task.priority,
                   reasoning |-> JStr("Fallback calculation based on priority and deadline"),
                   urgency_factors |-> JList(<<"Fallback mode">>),
                   suggested_deadline |->
                       IF Truthy(task.deadline) THEN StrOf(task.deadline) ELSE JNull,
                   estimated_duration_refined |-> task.estimated_duration,
                   context_relevance |-> JStr("Fallback mode - no context analysis"),
                   recommended_actions |-> JList(<<"Review task manually">>),
                   is_fallback |-> JBool(TRUE)]]

\* task_info["deadline"] after the conversion to a string
DeadlineInfo(deadline) == IF Truthy(deadline) THEN StrOf(deadline) ELSE deadline

\* the normalized priority_score
NormalizeScoreMutNoFloor(result) ==
    LET raw_score == Get(result, "priority_score", JNum(50))
    IN  IF raw_score.t \in {"num", "bool"}
        THEN JNum(Min(100, raw_score.n * (IF raw_score.t = "bool" THEN 100 ELSE 1)))
        ELSE JNum(50)
NormalizeScoreMutNoClamp(result) ==
    LET raw_score == Get(result, "priority_score", JNum(50))
    IN  IF raw_score.t \in {"num", "bool"}
        THEN JNum(raw_score.n * (IF raw_score.t = "bool" THEN 100 ELSE 1))
        ELSE JNum(50)
NormalizeScore(result) ==
    LET raw_score == Get(result, "priority_score", JNum(50))
    IN  IF raw_score.t \in {"num", "bool"}
        THEN JNum(Max(0, Min(100, raw_score.n * (IF raw_score.t = "bool" THEN 100 ELSE 1))))
        ELSE JNum(50)

PrioritizationDefaults(task) ==
    [suggested_priority |-> task.priority,
     reasoning |-> JStr("Priority analysis completed"),
     urgency_factors |-> JList(<<>>),
     suggested_deadline |-> DeadlineInfo(task.deadline),
     estimated_duration_refined |-> task.estimated_duration,
     context_relevance |-> JStr("Context considered in priority calculation"),
     recommended_actions |-> JList(<<>>)]

\* the exception raised while the prompt is built, "" when none: the context
\* summary takes len() of context_data's urgency_indicators
PrioritizePromptError(context_data) ==
    IF DOMAIN context_data # {} /\ ~HasLen(Get(context_data, "urgency_indicators", JList(<<>>)))
    THEN "TypeError"
    ELSE ""

PrioritizeTask(task, context_data, plan, db) ==
    LET pe == PrioritizePromptError(context_data)
        req == IF pe = "" THEN MakeRequest(plan) ELSE NoRequest
        e == IF pe # "" THEN pe ELSE AiPathError(req, "AttributeError")
        f == FallbackPrioritization(task)
    IN  IF e = ""
        THEN LET parsed == Extract(req.text).d
                 result == Put(parsed, "priority_score", NormalizeScore(parsed))
             IN  Returned("ai", FillDefaults(result, PrioritizationDefaults(task)),
                          LogRows(db, "task_prioritization", TRUE, JNull), req)
        ELSE Returned(f.via, f.val, LogRows(db, "task_prioritization", FALSE, JStr(e)), req)

----------------------------------------------------------------------------
(* AITaskManager.enhance_task and _fallback_enhancement *)

\* task_data is [isdict, d]: a dict d, or something that is no dict (isdict = FALSE)

\* the words titles are made of, each with the keywords of tag_keywords that occur
\* in its lower-cased form
WordKeywords ==
    [Meeting |-> {"meeting"}, CALL |-> {"call"}, Research |-> {"research"},
     decode |-> {"code"}, ASAP |-> {"asap"}, review |-> {"review"},
     planning |-> {"plan"}, report |-> {}]
Words == DOMAIN WordKeywords

\* tag_keywords, in the order of the dict
TagOrder == <<"meeting", "research", "coding", "urgent", "review", "planning">>
TagKeywords ==
    [meeting |-> {"meeting", "call", "discuss", "conference"},
     research |-> {"research", "study", "analyze", "investigate"},
     coding |-> {"code", "program", "develop", "implement"},
     urgent |-> {"urgent", "asap", "immediately", "priority"},
     review |-> {"review", "check", "verify", "audit"},
     planning |-> {"plan", "schedule", "organize", "prepare"}]

\* the keywords that occur in each word as it is written, not lower-cased
WordKeywordsExact ==
    [Meeting |-> {}, CALL |-> {}, Research |-> {}, decode |-> {"code"}, ASAP |-> {},
     review |-> {"review"}, planning |-> {"plan"}, report |-> {}]

\* any(kw in title_lower for kw in keywords)
TitleHasMutCaseSensitive(title, keywords) ==
    \E i \in 1..Len(title.l) : WordKeywordsExact[title.l[i]] \cap keywords # {}
TitleHas(title, keywords) ==
    \E i \in 1..Len(title.l) : WordKeywords[title.l[i]] \cap keywords # {}

\* the tags appended by the loop over tag_keywords.items(), from table entry i on
RECURSIVE MatchTags(_, _)
MatchTags(title, i) ==
    IF i > Len(TagOrder) THEN <<>>
    ELSE (IF TitleHas(title, TagKeywords[TagOrder[i]]) THEN <<TagOrder[i]>> ELSE <<>>)
         \o MatchTags(title, i + 1)

\* xs[:n]
Take(xs, n) == SubSeq(xs, 1, Min(Len(xs), n))

\* f"Complete task: {title}"
CompleteTask(title) == [t |-> "str", n |-> 0, s |-> "Complete task: ", l |-> title.l]

\* [exc, via, val]; exc = "AttributeError" when task_data has no .get
FallbackEnhancement(task_data) ==
    IF ~task_data.isdict
    THEN [exc |-> "AttributeError", via |-> "raise", val |-> EmptyDict]
    ELSE LET title == Get(task_data.d, "title", JStr(""))
             description == Get(task_data.d, "description", JStr(""))
         IN  IF title.t # "str"
             THEN [exc |-> "", via |-> "emergency",
                   val |-> [enhanced_description |-> Get(task_data.d, "title", JStr("Task")),
                            suggested_tags |-> JList(<<>>),
                            suggested_category |-> JStr("general"),
                            breakdown_suggestions |-> JList(<<>>),
                            resource_suggestions |-> JList(<<>>),
                            difficulty_assessment |-> JStr("medium"),
                            context_connections |-> JStr("Fallback failed"),
                            is_fallback |-> JBool(TRUE),
                            error |-> JStr("AttributeError")]]
             ELSE [exc |-> "", via |-> "fallback",
                   val |-> [enhanced_description |->
                                IF Truthy(description) THEN description
                                ELSE CompleteTask(title),
                            suggested_tags |-> JList(Take(MatchTags(title, 1), 3)),
                            suggested_category |-> JStr("general"),
                            breakdown_suggestions |-> JList(<<>>),
                            resource_suggestions |-> JList(<<>>),
                            difficulty_assessment |-> JStr("medium"),
                            context_connections |->
                                JStr("Fallback mode - no context analysis available"),
                            is_fallback |-> JBool(TRUE)]]

EnhancementDefaults(d) ==
    [enhanced_description |-> Get(d, "description", Get(d, "title", JStr(""))),
     suggested_tags |-> JList(<<>>),
     suggested_category |-> JStr("general"),
     breakdown_suggestions |-> JList(<<>>),
     resource_suggestions |-> JList(<<>>),
     difficulty_assessment |-> JStr("medium"),
     context_connections |-> JStr("No specific context connections identified")]

\* the exception raised before the request, "" when none: the isinstance check,
\* ', '.join of context_data's key_themes, json.dumps of task_data
EnhancePromptError(task_data, context_data) ==
    IF ~task_data.isdict THEN "task_data must be a dictionary"
    ELSE IF DOMAIN context_data # {} /\ ~HasLen(Get(context_data, "key_themes", JList(<<>>)))
    THEN "TypeError"
    ELSE IF \E k \in DOMAIN task_data.d : task_data.d[k].t = "datetime"
    THEN "TypeError"
    ELSE ""

EnhanceTask(task_data, context_data, plan, db) ==
    LET pe == EnhancePromptError(task_data, context_data)
        req == IF pe = "" THEN MakeRequest(plan) ELSE NoRequest
        e == IF pe # "" THEN pe ELSE AiPathError(req, "TypeError")
        f == FallbackEnhancement(task_data)
    IN  IF e = ""
        THEN Returned("ai", FillDefaults(Extract(req.text).d, EnhancementDefaults(task_data.d)),
                      LogRows(db, "task_enhancement", TRUE, JNull), req)
        ELSE IF f.exc # "" THEN Raised(f.exc, <<>>, req)
        ELSE Returned(f.via, f.val, LogRows(db, "task_enhancement", FALSE, JStr(e)), req)

----------------------------------------------------------------------------
(* AITaskManager.get_task_recommendations *)

\* the deadline TempTask gets: a str goes through parse_datetime
ParsedDeadline(deadline) ==
    IF Truthy(deadline) /\ deadline.t = "str"
    THEN IF deadline.s = "iso" THEN JDateTime(deadline.n) ELSE JNull
    ELSE deadline

TempTask(d) ==
    [title |-> Get(d, "title", JStr("")),
     description |-> Get(d, "description", JStr("")),
     priority |-> Get(d, "priority", JStr("medium")),
     deadline |-> ParsedDeadline(Get(d, "deadline", JNull)),
     estimated_duration |-> Get(d, "estimated_duration", JNull)]

\* f"Priority: {...} | Enhancement: {...}"
ReasoningOf(prioritization, enhancement) ==
    [t |-> "str", n |-> 0, s |-> Get(prioritization, "reasoning", JStr("N/A")).s,
     l |-> <<Get(enhancement, "context_connections", JStr("N/A")).s>>]

\* the final response; the nested context_analysis dict is flattened to ca_* keys
CombinedResult(context_analysis, prioritization, enhancement) ==
    LET result ==
          [priority_score |-> Get(prioritization, "priority_score", JNum(50)),
           suggested_priority |-> Get(prioritization, "suggested_priority", JStr("medium")),
           enhanced_description |-> Get(enhancement, "enhanced_description", JStr("")),
           suggested_tags |-> Get(enhancement, "suggested_tags", JList(<<>>)),
           suggested_category |-> Get(enhancement, "suggested_category", JStr("general")),
           ca_summary |-> Get(context_analysis, "context_summary", JStr("No context analyzed")),
           ca_urgency_indicators |-> Get(context_analysis, "urgency_indicators", JList(<<>>)),
           ca_themes |-> Get(context_analysis, "key_themes", JList(<<>>)),
           reasoning |-> ReasoningOf(prioritization, enhancement),
           success |-> JBool(TRUE)]
        suggested_deadline == Get(prioritization, "suggested_deadline", JNull)
    IN  IF Truthy(suggested_deadline)
        THEN Put(result, "suggested_deadline", suggested_deadline)
        ELSE result

\* the response of the except branch (task_data is a dict d)
CombinedFallbackMutPassesScore(d, e) ==
    [priority_score |-> Get(d, "priority_score", JNum(90)),
     suggested_priority |-> Get(d, "priority", JStr("medium")),
     enhanced_description |-> Get(d, "description", Get(d, "title", JStr(""))),
     suggested_tags |-> JList(<<>>),
     suggested_category |-> JStr("general"),
     ca_summary |-> JStr("Analysis failed"),
     ca_urgency_indicators |-> JList(<<>>),
     ca_themes |-> JList(<<>>),
     reasoning |-> JStr("Fallback due to error"),
     error |-> JStr(e),
     success |-> JBool(TRUE),
     is_fallback |-> JBool(TRUE)]
CombinedFallback(d, e) ==
    [priority_score |-> JNum(50),
     suggested_priority |-> JStr("medium"),
     enhanced_description |-> Get(d, "description", Get(d, "title", JStr(""))),
     suggested_tags |-> JList(<<>>),
     suggested_category |-> JStr("general"),
     ca_summary |-> JStr("Analysis failed"),
     ca_urgency_indicators |-> JList(<<>>),
     ca_themes |-> JList(<<>>),
     reasoning |-> JStr("Fallback due to error"),
     error |-> JStr(e),
     success |-> JBool(FALSE),
     is_fallback |-> JBool(TRUE)]

----------------------------------------------------------------------------
(* ai_breaker = CircuitBreaker(fail_max=3, reset_timeout=60, exclude=[...]) *)

BreakerClosed == [state |-> "closed", fail_counter |-> 0, opened_at |-> -1]

\* exclude=[ConnectionError, requests.exceptions.Timeout]
Excluded == {"ConnectionError", "Timeout"}
IsSystemError(exc) == exc \notin Excluded

\* OPEN and reset_timeout not elapsed: the call is rejected with CircuitBreakerError
StillOpenMutNeverRejects(b, t) == FALSE
StillOpen(b, t) == b.state = "open" /\ b.opened_at # -1 /\ t < b.opened_at + ResetTimeout

\* the breaker when a call is admitted: an OPEN breaker whose timeout elapsed
\* becomes HALF_OPEN and the call is its trial
Admit(b) == IF b.state = "open" THEN [b EXCEPT !.state = "half-open"] ELSE b

\* the breaker after the wrapped method ended with exception exc ("" for a return)
AfterCallMutNoReset(b, exc, t) ==
    IF exc # "" /\ IsSystemError(exc)
    THEN LET n == b.fail_counter + 1
         IN  IF b.state = "half-open" \/ n >= FailMax
             THEN [state |-> "open", fail_counter |-> n, opened_at |-> t]
             ELSE [b EXCEPT !.fail_counter = n]
    ELSE [b EXCEPT !.state = "closed"]
AfterCall(b, exc, t) ==
    IF exc # "" /\ IsSystemError(exc)
    THEN LET n == b.fail_counter + 1
         IN  IF b.state = "half-open" \/ n >= FailMax
             THEN [state |-> "open", fail_counter |-> n, opened_at |-> t]
             ELSE [b EXCEPT !.fail_counter = n]
    ELSE [b EXCEPT !.state = "closed", !.fail_counter = 0]

\* the exception the decorated method's caller sees: a counted failure that opens
\* the breaker is replaced by CircuitBreakerError
ExcSeen(b, exc) ==
    IF exc # "" /\ IsSystemError(exc)
          /\ (b.state = "half-open" \/ b.fail_counter + 1 >= FailMax)
    THEN "CircuitBreakerError"
    ELSE exc

\* the whole call runs under the breaker's lock (0: free)
CanAcquireMutNoLock(owner, t) == TRUE
CanAcquire(owner, t) == owner = 0

----------------------------------------------------------------------------
(* Callers *)

Methods == {"analyze_context", "prioritize_task", "enhance_task"}
Ops == Methods \cup {"get_task_recommendations"}

NoTask ==
    [title |-> JStr(""), description |-> JNull, priority |-> JStr("medium"),
     deadline |-> JNull, estimated_duration |-> JNull]
NoArgs == [entries |-> "empty", task |-> NoTask, task_data |-> [isdict |-> TRUE, d |-> EmptyDict]]
NoResult == [exc |-> "", via |-> "none", val |-> EmptyDict]
NoSub == [m \in Methods |-> NoResult]

\* the AIProcessingLog rows caller t's current call appended
Rows(t) == SelectSeq(log[t], LAMBDA r : r.stored)

\* what a caller of a method sees of its outcome
Seen(o, exc) ==
    IF exc # "" THEN [exc |-> exc, via |-> "raise", val |-> EmptyDict]
    ELSE [exc |-> "", via |-> o.via, val |-> o.val]

\* all attempts of the call's request were made and met a timeout or a connection error
AllTransient(req) ==
    /\ Len(req.attempts) = max_retries
    /\ \A i \in 1..Len(req.attempts) : req.attempts[i] \in TransientKinds

\* context_analysis of get_task_recommendations: {} until analyze_context returned
ContextAnalysisMutAlwaysEmpty(t) == EmptyDict
ContextAnalysis(t) ==
    IF sub[t]["analyze_context"].via # "none" /\ sub[t]["analyze_context"].exc = ""
    THEN sub[t]["analyze_context"].val
    ELSE EmptyDict

\* the context argument of the method caller t is about to invoke: a direct call
\* passes none, get_task_recommendations passes context_analysis
ContextArg(t) == IF op[t] = "get_task_recommendations" THEN ContextAnalysis(t) ELSE EmptyDict

\* the caller resumes with r, the result or exception of the method it called:
\* a direct call ends; get_task_recommendations goes on to its next sub-step,
\* or to its except branch
Continue(t, r) ==
    IF op[t] # "get_task_recommendations"
    THEN /\ ret' = [ret EXCEPT ![t] = r]
         /\ pc' = [pc EXCEPT ![t] = "done"]
         /\ UNCHANGED <<step, sub>>
    ELSE /\ sub' = [sub EXCEPT ![t][step[t]] = r]
         /\ IF r.exc # ""
            THEN /\ ret' = [ret EXCEPT ![t] =
                          [exc |-> "", via |-> "fallback",
                           val |-> CombinedFallback(args[t].task_data.d, r.exc)]]
                 /\ pc' = [pc EXCEPT ![t] = "done"]
                 /\ UNCHANGED step
            ELSE IF step[t] = "enhance_task"
            THEN /\ ret' = [ret EXCEPT ![t] =
                          [exc |-> "", via |-> "ai",
                           val |-> CombinedResult(ContextAnalysis(t),
                                                  sub[t]["prioritize_task"].val, r.val)]]
                 /\ pc' = [pc EXCEPT ![t] = "done"]
                 /\ UNCHANGED step
            ELSE /\ step' = [step EXCEPT ![t] =
                          IF step[t] = "analyze_context" THEN "prioritize_task"
                          ELSE "enhance_task"]
                 /\ pc' = [pc EXCEPT ![t] = "enter"]
                 /\ UNCHANGED ret

\* caller t calls public operation o with arguments a
DoCall(t, o, a) ==
    /\ pc[t] \in {"idle", "done"}
    /\ op' = [op EXCEPT ![t] = o]
    /\ args' = [args EXCEPT ![t] = a]
    /\ out' = [out EXCEPT ![t] = NoOutcome]
    /\ sub' = [sub EXCEPT ![t] = NoSub]
    /\ log' = [log EXCEPT ![t] = <<>>]
    /\ reqs' = [reqs EXCEPT ![t] = <<>>]
    /\ slept' = [slept EXCEPT ![t] = <<>>]
    /\ IF o = "get_task_recommendations" /\ ~a.task_data.isdict
       THEN \* ValueError, then task_data.get in the except branch: AttributeError
            /\ ret' = [ret EXCEPT ![t] = Seen(NoResult, "AttributeError")]
            /\ pc' = [pc EXCEPT ![t] = "done"]
            /\ step' = [step EXCEPT ![t] = "none"]
       ELSE /\ ret' = [ret EXCEPT ![t] = NoResult]
            /\ pc' = [pc EXCEPT ![t] = "enter"]
            /\ step' = [step EXCEPT ![t] =
                    IF o # "get_task_recommendations" THEN o
                    ELSE IF a.entries = "some" THEN "analyze_context"
                    ELSE "prioritize_task"]
    /\ calls' = [calls EXCEPT ![t] = <<>>]
    /\ UNCHANGED <<breaker, lock, now, transientRun, failRun, fb, cl, ex, fe, dl, rc, ce, task_score, tk>>

\* the decorator: take the breaker's lock and ask the breaker's state
Enter(t) ==
    /\ pc[t] = "enter"
    /\ CanAcquire(lock, t)
    /\ IF StillOpen(breaker, now)
       THEN /\ out' = [out EXCEPT ![t] = Raised("CircuitBreakerError", <<>>, NoRequest)]
            /\ Continue(t, Seen(NoResult, "CircuitBreakerError"))
            /\ UNCHANGED <<breaker, lock>>
       ELSE /\ breaker' = Admit(breaker)
            /\ lock' = t
            /\ pc' = [pc EXCEPT ![t] = "body"]
            /\ UNCHANGED <<out, step, sub, ret>>
    /\ calls' = [calls EXCEPT ![t] = Append(@, [m |-> step[t], ctx |-> ContextArg(t)])]
    /\ UNCHANGED <<now, op, args, log, reqs, slept, transientRun, failRun, fb, cl, ex, fe,
                   dl, rc, ce, task_score, tk>>

\* the body of the method caller t is in, against a backend that follows plan
MethodOutcome(t, plan, db) ==
    CASE step[t] = "analyze_context" ->
            AnalyzeContext(IF op[t] = "analyze_context" THEN args[t].entries ELSE "some",
                           plan, db)
      [] step[t] = "prioritize_task" ->
            IF op[t] = "prioritize_task"
            THEN PrioritizeTask(args[t].task, ContextArg(t), plan, db)
            ELSE PrioritizeTask(TempTask(args[t].task_data.d), ContextArg(t), plan, db)
      [] OTHER ->
            EnhanceTask(args[t].task_data, ContextArg(t), plan, db)

DoBodyMutWritesBack(t, plan, db) ==
    /\ pc[t] = "body"
    /\ LET o == MethodOutcome(t, plan, db)
       IN  /\ out' = [out EXCEPT ![t] = o]
           /\ log' = [log EXCEPT ![t] = @ \o o.rows]
           /\ reqs' = [reqs EXCEPT ![t] = @ \o o.req.attempts]
           /\ slept' = [slept EXCEPT ![t] = @ \o o.req.sleeps]
           /\ args' = [args EXCEPT ![t].task_data.d =
                        IF step[t] = "enhance_task" /\ o.exc = ""
                        THEN [k \in DOMAIN @ \cup {"priority"} |->
                                 IF k = "priority" THEN JStr("medium") ELSE @[k]]
                        ELSE @]
    /\ pc' = [pc EXCEPT ![t] = "exit"]
    /\ UNCHANGED <<breaker, lock, now, op, step, sub, ret, transientRun, failRun,
                   fb, cl, ex, fe, dl, rc, calls, ce, task_score, tk>>
\* the method body runs: it reads its arguments and assigns to none of them
DoBody(t, plan, db) ==
    /\ pc[t] = "body"
    /\ LET o == MethodOutcome(t, plan, db)
       IN  /\ out' = [out EXCEPT ![t] = o]
           /\ log' = [log EXCEPT ![t] = @ \o o.rows]
           /\ reqs' = [reqs EXCEPT ![t] = @ \o o.req.attempts]
           /\ slept' = [slept EXCEPT ![t] = @ \o o.req.sleeps]
    /\ pc' = [pc EXCEPT ![t] = "exit"]
    /\ UNCHANGED <<breaker, lock, now, op, args, step, sub, ret, transientRun, failRun,
                   fb, cl, ex, fe, dl, rc, calls, ce, task_score, tk>>

\* the decorator after the method: count the failure or the success, release the lock
Exit(t) ==
    /\ pc[t] = "exit"
    /\ breaker' = AfterCall(breaker, out[t].exc, now)
    /\ lock' = 0
    /\ transientRun' = IF AllTransient(out[t].req) THEN Min(transientRun + 1, FailMax) ELSE 0
    /\ failRun' = IF out[t].exc # "" /\ IsSystemError(out[t].exc) THEN failRun + 1 ELSE 0
    /\ Continue(t, Seen(out[t], ExcSeen(breaker, out[t].exc)))
    /\ UNCHANGED <<now, op, args, out, log, reqs, slept, fb, cl, ex, fe, dl, rc, calls, ce, task_score, tk>>

Tick ==
    /\ now < MaxTime
    /\ now' = now + TickLen
    /\ UNCHANGED <<breaker, lock, pc, op, args, step, out, sub, ret, log, reqs, slept,
                   transientRun, failRun, fb, cl, ex, fe, dl, rc, calls, ce, task_score, tk>>

----------------------------------------------------------------------------
(* Inputs *)

FullText == <<"{", "score_hi", "reasoning", "desc", "tags", "summary", "}">>
NullsText == <<"{", "score_null", "priority_null", "desc_null", "workload_null", "}">>
OddText == <<"{", "score_str", "themes_num", "urgency_num", "}">>
WrappedText == <<"x", "{", "score_neg", "}", "x">>
ProseText == <<"x", "x">>
BrokenText == <<"}", "x", "{">>
ListText == <<"[]">>
\* the texts that parse as a value that is not an object
NonObjectTexts == {<<k>> : k \in ScalarTokens}
Texts ==
    {FullText, NullsText, OddText, WrappedText, ProseText, BrokenText, <<>>}
        \cup NonObjectTexts

OkPlan(text) == <<Ok(text), Fail("timeout"), Fail("timeout")>>
FailPlans ==
    { <<Fail("timeout"), Fail("timeout"), Fail("timeout")>>,
      <<Fail("conn"), Fail("timeout"), Fail("conn")>>,
      <<Fail("http"), Fail("http"), Fail("http")>>,
      <<Fail("timeout"), Fail("conn"), Ok(FullText)>>,
      <<Fail("http"), Fail("nocontent"), Fail("timeout")>>,
      <<Fail("nochoices"), Fail("timeout"), Fail("timeout")>>,
      <<Fail("nonstr"), Fail("timeout"), Fail("timeout")>> }
Plans == {OkPlan(text) : text \in Texts} \cup FailPlans
\* the backend behaviours tried on the sub-steps of get_task_recommendations
RecPlans ==
    { OkPlan(FullText), OkPlan(OddText), OkPlan(ProseText),
      <<Fail("timeout"), Fail("timeout"), Fail("timeout")>> }

Entries == {"None", "empty", "some"}

UrgentToday ==
    [title |-> JWords(<<"Meeting">>), description |-> JStr("weekly"),
     priority |-> JStr("urgent"), deadline |-> JDateTime(0), estimated_duration |-> JNum(30)]
BareTask ==
    [title |-> JWords(<<"report">>), description |-> JNull,
     priority |-> JStr("low"), deadline |-> JNull, estimated_duration |-> JNull]
Tasks == {UrgentToday, BareTask}

Dict(d) == [isdict |-> TRUE, d |-> d]
NotADict == [isdict |-> FALSE, d |-> EmptyDict]
FullData ==
    Dict([title |-> JWords(<<"planning", "Meeting">>), description |-> JStr("weekly"),
          priority |-> JStr("urgent"), deadline |-> JIso(0),
          estimated_duration |-> JNum(30)])
NullDescription == Dict([title |-> JWords(<<"review">>), description |-> JNull])
NullTitle == Dict([title |-> JNull])
TaskDatas == {FullData, NullDescription, NullTitle, NotADict}
RecTaskDatas == {FullData, NullDescription, NotADict}

ArgsOf(o) ==
    CASE o = "analyze_context" -> {[NoArgs EXCEPT !.entries = e] : e \in Entries}
      [] o = "prioritize_task" -> {[NoArgs EXCEPT !.task = k] : k \in Tasks}
      [] o = "enhance_task" -> {[NoArgs EXCEPT !.task_data = d] : d \in TaskDatas}
      [] OTHER -> {[NoArgs EXCEPT !.task_data = d, !.entries = e] :
                        d \in RecTaskDatas, e \in Entries}

NoFb == [tasks |-> <<>>, results |-> <<>>]
NoCl == [plan |-> <<>>, done |-> FALSE, result |-> NoRequest]
NoFe == [task_data |-> [isdict |-> TRUE, d |-> EmptyDict], done |-> FALSE,
         result |-> [exc |-> "", via |-> "none", val |-> EmptyDict]]
NoDl == [task |-> NoTask, at |-> 0, done |-> FALSE, result |-> EmptyDict]
NoRc == [tasks |-> <<>>, status |-> "pending", returns |-> <<>>, done |-> FALSE,
         exc |-> "", updated_count |-> 0]
NoCe == [entries |-> <<>>, runs |-> <<>>]
\* a new Task(): status 'pending', completed_at None, not saved yet
NoTk == [status |-> "pending", completed_at |-> JNull, saves |-> 0, saved_at |-> 0,
         clock |-> 0]
NoEx == [text |-> <<>>, stage |-> "none", parsed |-> [isdict |-> TRUE, d |-> EmptyDict],
         filled |-> EmptyDict, refilled |-> EmptyDict]

\* the callers and backend behaviours of SpecConc
ConcCalls ==
    { [o |-> "analyze_context", a |-> [NoArgs EXCEPT !.entries = "None"]],
      [o |-> "analyze_context", a |-> [NoArgs EXCEPT !.entries = "empty"]],
      [o |-> "prioritize_task", a |-> [NoArgs EXCEPT !.task = UrgentToday]] }
ConcPlans == {OkPlan(FullText), <<Fail("timeout"), Fail("timeout"), Fail("timeout")>>}

\* the tasks of SpecFallback: every priority with every deadline
MaxHalfDaysPast == 3
MaxHalfDaysAhead == 21
FbPriorities ==
    {JStr("low"), JStr("medium"), JStr("high"), JStr("urgent"), JStr("someday"), JNull,
     JList(<<"high">>)}
FbDeadlines ==
    {JNull, JStr("tomorrow")}
        \cup {JDateTime(12 * h) : h \in (0 - MaxHalfDaysPast)..MaxHalfDaysAhead}
FbTasks == {[NoTask EXCEPT !.priority = p, !.deadline = d] : p \in FbPriorities, d \in FbDeadlines}

----------------------------------------------------------------------------
(* Spec: one caller at a time *)

Init ==
    /\ breaker = BreakerClosed
    /\ lock = 0
    /\ now = 0
    /\ pc = [t \in Callers |-> "idle"]
    /\ op = [t \in Callers |-> "none"]
    /\ args = [t \in Callers |-> NoArgs]
    /\ step = [t \in Callers |-> "none"]
    /\ out = [t \in Callers |-> NoOutcome]
    /\ sub = [t \in Callers |-> NoSub]
    /\ ret = [t \in Callers |-> NoResult]
    /\ log = [t \in Callers |-> <<>>]
    /\ reqs = [t \in Callers |-> <<>>]
    /\ slept = [t \in Callers |-> <<>>]
    /\ transientRun = 0
    /\ failRun = 0
    /\ tk = NoTk
    /\ task_score = priority_score_default
    /\ ce = NoCe
    /\ calls = [t \in Callers |-> <<>>]
    /\ rc = NoRc
    /\ dl = NoDl
    /\ fe = NoFe
    /\ fb = NoFb
    /\ cl = NoCl
    /\ ex = NoEx

Call(t) == \E o \in Ops : \E a \in ArgsOf(o) : DoCall(t, o, a)

Body(t) ==
    \E plan \in (IF op[t] = "get_task_recommendations" THEN RecPlans ELSE Plans) :
        \E db \in BOOLEAN : DoBody(t, plan, db)

Next ==
    \/ Call(1)
    \/ Enter(1)
    \/ Body(1)
    \/ Exit(1)
    \/ Tick

Spec == Init /\ [][Next]_vars

----------------------------------------------------------------------------
(* SpecConc: concurrent callers of the breaker-wrapped methods *)

CallConc(t) == \E c \in ConcCalls : DoCall(t, c.o, c.a)
BodyConc(t) == \E plan \in ConcPlans : DoBody(t, plan, TRUE)

NextConc ==
    \/ \E t \in Callers : CallConc(t)
    \/ \E t \in Callers : Enter(t)
    \/ \E t \in Callers : BodyConc(t)
    \/ \E t \in Callers : Exit(t)
    \/ Tick

SpecConc == Init /\ [][NextConc]_vars

----------------------------------------------------------------------------
(* SpecInference: one caller, calls whose arguments have the declared types: *)
(* analyze_context with a list, prioritize_task, enhance_task with a dict    *)

TypedArgsOf(o) ==
    {a \in ArgsOf(o) : (o = "analyze_context" => a.entries # "None")
                         /\ (o = "enhance_task" => a.task_data.isdict)}

CallTyped(t) == \E o \in Methods : \E a \in TypedArgsOf(o) : DoCall(t, o, a)

NextInference ==
    \/ CallTyped(1)
    \/ Enter(1)
    \/ Body(1)
    \/ Exit(1)
    \/ Tick

SpecInference == Init /\ [][NextInference]_vars

----------------------------------------------------------------------------
(* SpecView: the prioritization view: it calls prioritize_task for a task and *)
(* stores the returned priority_score; other requests of the process call    *)
(* analyze_context                                                            *)

\* a task object whose priority is not a string: prioritize_task takes any object,
\* and this one takes it to its emergency fallback
ListPriority == [BareTask EXCEPT !.priority = JList(<<"high">>)]
ViewTasks == Tasks \cup {ListPriority}

CallView(t) ==
    /\ pc[t] = "idle"
    /\ \/ \E k \in ViewTasks : DoCall(t, "prioritize_task", [NoArgs EXCEPT !.task = k])
       \/ \E e \in Entries : DoCall(t, "analyze_context", [NoArgs EXCEPT !.entries = e])
    /\ UNCHANGED task_score

\* task.priority_score = prioritization.get('priority_score', task.priority_score);
\* task.save(); an exception of prioritize_task leaves the task as it is
StoreScore(t) ==
    /\ pc[t] = "done"
    /\ pc' = [pc EXCEPT ![t] = "idle"]
    /\ task_score' =
          IF op[t] = "prioritize_task" /\ ret[t].exc = ""
          THEN Get(ret[t].val, "priority_score", JNum(task_score)).n
          ELSE task_score
    /\ UNCHANGED <<breaker, lock, now, op, args, step, out, sub, ret, log, reqs, slept,
                   transientRun, failRun, fb, cl, ex, fe, dl, rc, calls, ce, tk>>

NextView ==
    \/ CallView(1)
    \/ Enter(1)
    \/ Body(1)
    \/ Exit(1)
    \/ StoreScore(1)
    \/ Tick

SpecView == Init /\ [][NextView]_vars

----------------------------------------------------------------------------
(* SpecFallback: _fallback_prioritization applied to pairs of tasks *)

InitFallback ==
    /\ breaker = BreakerClosed
    /\ lock = 0
    /\ now = 0
    /\ pc = [t \in Callers |-> "idle"]
    /\ op = [t \in Callers |-> "none"]
    /\ args = [t \in Callers |-> NoArgs]
    /\ step = [t \in Callers |-> "none"]
    /\ out = [t \in Callers |-> NoOutcome]
    /\ sub = [t \in Callers |-> NoSub]
    /\ ret = [t \in Callers |-> NoResult]
    /\ log = [t \in Callers |-> <<>>]
    /\ reqs = [t \in Callers |-> <<>>]
    /\ slept = [t \in Callers |-> <<>>]
    /\ transientRun = 0
    /\ failRun = 0
    /\ tk = NoTk
    /\ task_score = priority_score_default
    /\ ce = NoCe
    /\ calls = [t \in Callers |-> <<>>]
    /\ rc = NoRc
    /\ dl = NoDl
    /\ fe = NoFe
    /\ cl = NoCl
    /\ ex = NoEx
    /\ \E a \in FbTasks : \E b \in FbTasks : fb = [tasks |-> <<a, b>>, results |-> <<>>]

RunFallback ==
    /\ fb.results = <<>>
    /\ fb' = [fb EXCEPT !.results = <<FallbackPrioritization(fb.tasks[1]),
                                       FallbackPrioritization(fb.tasks[2])>>]
    /\ UNCHANGED <<breaker, lock, now, pc, op, args, step, out, sub, ret, log, reqs, slept,
                   transientRun, failRun, cl, ex, fe, dl, rc, calls, ce, task_score, tk>>

NextFallback == RunFallback

SpecFallback == InitFallback /\ [][NextFallback]_vars

----------------------------------------------------------------------------
(* SpecClient: one _make_request call against every behaviour of the backend *)

\* no caller has called anything
NoCalls ==
    /\ breaker = BreakerClosed
    /\ lock = 0
    /\ now = 0
    /\ pc = [t \in Callers |-> "idle"]
    /\ op = [t \in Callers |-> "none"]
    /\ args = [t \in Callers |-> NoArgs]
    /\ step = [t \in Callers |-> "none"]
    /\ out = [t \in Callers |-> NoOutcome]
    /\ sub = [t \in Callers |-> NoSub]
    /\ ret = [t \in Callers |-> NoResult]
    /\ log = [t \in Callers |-> <<>>]
    /\ reqs = [t \in Callers |-> <<>>]
    /\ slept = [t \in Callers |-> <<>>]
    /\ transientRun = 0
    /\ failRun = 0

\* what the backend can do on one attempt
Responses ==
    {Fail(k) : k \in {"timeout", "conn", "http", "nonstr"} \cup BadEnvelopes}
        \cup {Ok(FullText), Ok(<<>>)}
ClientPlans == [1..max_retries -> Responses]

InitClient ==
    /\ NoCalls
    /\ tk = NoTk
    /\ task_score = priority_score_default
    /\ ce = NoCe
    /\ calls = [t \in Callers |-> <<>>]
    /\ rc = NoRc
    /\ dl = NoDl
    /\ fe = NoFe
    /\ fb = NoFb
    /\ ex = NoEx
    /\ \E plan \in ClientPlans : cl = [plan |-> plan, done |-> FALSE, result |-> NoRequest]

RunRequest ==
    /\ ~cl.done
    /\ cl' = [cl EXCEPT !.done = TRUE, !.result = MakeRequest(cl.plan)]
    /\ UNCHANGED <<breaker, lock, now, pc, op, args, step, out, sub, ret, log, reqs, slept,
                   transientRun, failRun, fb, ex, fe, dl, rc, calls, ce, task_score, tk>>

NextClient == RunRequest

SpecClient == InitClient /\ [][NextClient]_vars

----------------------------------------------------------------------------
(* SpecExtract: _extract_json_from_response on every short text, then the *)
(* default-fill loop of an operation, applied once and once more          *)

MaxTextLen == 4
ExTokens == {"{", "}", "x", "[]", "score_hi", "desc_null", "workload_null", "summary"}
ExTexts == UNION {[1..n -> ExTokens] : n \in 0..MaxTextLen}

\* the defaults dicts of analyze_context, prioritize_task and enhance_task
DefaultsDicts ==
    {AnalysisDefaults}
        \cup {PrioritizationDefaults(k) : k \in Tasks}
        \cup {EnhancementDefaults(d.d) : d \in {FullData, NullDescription, NullTitle}}

InitExtract ==
    /\ NoCalls
    /\ tk = NoTk
    /\ task_score = priority_score_default
    /\ ce = NoCe
    /\ calls = [t \in Callers |-> <<>>]
    /\ rc = NoRc
    /\ dl = NoDl
    /\ fe = NoFe
    /\ fb = NoFb
    /\ cl = NoCl
    /\ \E text \in ExTexts : ex = [NoEx EXCEPT !.text = text, !.stage = "text"]

RunExtract ==
    /\ ex.stage = "text"
    /\ ex' = [ex EXCEPT !.stage = "parsed", !.parsed = Extract(ex.text)]
    /\ UNCHANGED <<breaker, lock, now, pc, op, args, step, out, sub, ret, log, reqs, slept,
                   transientRun, failRun, fb, cl, fe, dl, rc, calls, ce, task_score, tk>>

\* the loop `for field, default in defaults.items()` over the parsed dict, and the
\* same loop over its result
RunFill(defaults) ==
    /\ ex.stage = "parsed"
    /\ ex.parsed.isdict
    /\ LET filled == FillDefaults(ex.parsed.d, defaults)
       IN  ex' = [ex EXCEPT !.stage = "filled", !.filled = filled,
                            !.refilled = FillDefaults(filled, defaults)]
    /\ UNCHANGED <<breaker, lock, now, pc, op, args, step, out, sub, ret, log, reqs, slept,
                   transientRun, failRun, fb, cl, fe, dl, rc, calls, ce, task_score, tk>>

NextExtract ==
    \/ RunExtract
    \/ \E defaults \in DefaultsDicts : RunFill(defaults)

SpecExtract == InitExtract /\ [][NextExtract]_vars

----------------------------------------------------------------------------
(* SpecEnhance: _fallback_enhancement on every short title *)

MaxTitleLen == 4
Titles ==
    {JWords(ws) : ws \in UNION {[1..n -> Words] : n \in 0..MaxTitleLen}} \cup {JNull}
Descriptions == {JNull, JStr(""), JStr("weekly")}
\* task_data with a title and a description, with only a title, with only a
\* description
EnhanceDatas ==
    {Dict([title |-> ti, description |-> de]) : ti \in Titles, de \in Descriptions}
        \cup {Dict([title |-> ti]) : ti \in Titles}
        \cup {Dict([description |-> de]) : de \in Descriptions}

InitEnhance ==
    /\ NoCalls
    /\ tk = NoTk
    /\ task_score = priority_score_default
    /\ ce = NoCe
    /\ calls = [t \in Callers |-> <<>>]
    /\ rc = NoRc
    /\ dl = NoDl
    /\ fb = NoFb
    /\ cl = NoCl
    /\ ex = NoEx
    /\ \E d \in EnhanceDatas : fe = [NoFe EXCEPT !.task_data = d]

RunFallbackEnhancement ==
    /\ ~fe.done
    /\ fe' = [fe EXCEPT !.done = TRUE, !.result = FallbackEnhancement(fe.task_data)]
    /\ UNCHANGED <<breaker, lock, now, pc, op, args, step, out, sub, ret, log, reqs, slept,
                   transientRun, failRun, fb, cl, ex, dl, rc, calls, ce, task_score, tk>>

NextEnhance == RunFallbackEnhancement

SpecEnhance == InitEnhance /\ [][NextEnhance]_vars

----------------------------------------------------------------------------
(* The deadline heuristic of the fallback engine, and SpecDeadline: the *)
(* heuristic on every named priority and every short duration           *)

\* days of lead time by priority
LeadDays == [urgent |-> 1, high |-> 3, medium |-> 7, low |-> 14]

\* days added for a long task: estimated_duration is in minutes; 1 day above 2
\* hours, 2 days above 4 hours
ExtraDays(estimated_duration) ==
    IF estimated_duration.t # "num" THEN 0
    ELSE IF estimated_duration.n > 240 THEN 2
    ELSE IF estimated_duration.n > 120 THEN 1
    ELSE 0

\* the suggested deadline for task when the current time is at (in hours)
FallbackDeadlineMutNoExtra(task, at) ==
    [suggested_deadline |-> JDateTime(at + 24 * LeadDays[task.priority.s]),
     is_fallback |-> JBool(TRUE)]
FallbackDeadline(task, at) ==
    [suggested_deadline |->
        JDateTime(at + 24 * (LeadDays[task.priority.s] + ExtraDays(task.estimated_duration))),
     is_fallback |-> JBool(TRUE)]

MaxHalfHours == 10
MaxStartHalfDays == 2
DlTasks ==
    {[NoTask EXCEPT !.priority = JStr(p), !.estimated_duration = d] :
        p \in DOMAIN LeadDays,
        d \in {JNull} \cup {JNum(30 * k) : k \in 0..MaxHalfHours}}

InitDeadline ==
    /\ NoCalls
    /\ tk = NoTk
    /\ task_score = priority_score_default
    /\ ce = NoCe
    /\ calls = [t \in Callers |-> <<>>]
    /\ rc = NoRc
    /\ fb = NoFb
    /\ cl = NoCl
    /\ ex = NoEx
    /\ fe = NoFe
    /\ \E task \in DlTasks : \E h \in 0..MaxStartHalfDays :
          dl = [NoDl EXCEPT !.task = task, !.at = 12 * h]

SuggestDeadline ==
    /\ ~dl.done
    /\ dl' = [dl EXCEPT !.done = TRUE, !.result = FallbackDeadline(dl.task, dl.at)]
    /\ UNCHANGED <<breaker, lock, now, pc, op, args, step, out, sub, ret, log, reqs, slept,
                   transientRun, failRun, fb, cl, ex, fe, rc, calls, ce, task_score, tk>>

NextDeadline == SuggestDeadline

SpecDeadline == InitDeadline /\ [][NextDeadline]_vars

----------------------------------------------------------------------------
(* The recalculate_priorities command, and SpecRecalc: one run of it on every *)
(* small Task table                                                            *)

\* the names the module binds: its imports
RecalcImports == {"BaseCommand", "Task", "ContextEntry", "AITaskManager"}

\* Task.objects.all() or Task.objects.filter(status=status_filter): the selected rows
Selected(tasks, status_filter) ==
    {i \in 1..Len(tasks) : status_filter = "all" \/ tasks[i].status = status_filter}

\* the loop over the selected tasks: returns[i].score is the priority_score that
\* prioritize_task returns for task i, returns[i].raises says that
\* prioritize_task or task.save() raises; the except branch goes on with the
\* next task
RecalcLoop(tasks, selected, returns) ==
    [i \in 1..Len(tasks) |->
        IF i \in selected /\ ~returns[i].raises
        THEN [tasks[i] EXCEPT !.priority_score = returns[i].score]
        ELSE tasks[i]]

\* Command.handle
Handle(run) ==
    LET selected == Selected(run.tasks, run.status)
    IN  IF selected = {}
        THEN [run EXCEPT !.done = TRUE]
        ELSE IF "timezone" \notin RecalcImports
        THEN [run EXCEPT !.done = TRUE, !.exc = "NameError"]
        ELSE [run EXCEPT !.done = TRUE,
                         !.tasks = RecalcLoop(run.tasks, selected, run.returns),
                         !.updated_count =
                             Cardinality({i \in selected : ~run.returns[i].raises})]

NumTasks == 3
\* Task.STATUS_CHOICES
Statuses == {"pending", "in_progress", "completed", "cancelled"}
TaskTables == [1..NumTasks -> [status : Statuses, priority_score : {priority_score_default}]]
StatusFilters == {"pending", "in_progress", "all"}
Returns ==
    [1..NumTasks -> {[raises |-> TRUE, score |-> 0]}
                        \cup {[raises |-> FALSE, score |-> x] : x \in {20, 80}}]

InitRecalc ==
    /\ NoCalls
    /\ tk = NoTk
    /\ task_score = priority_score_default
    /\ ce = NoCe
    /\ calls = [t \in Callers |-> <<>>]
    /\ fb = NoFb
    /\ cl = NoCl
    /\ ex = NoEx
    /\ fe = NoFe
    /\ dl = NoDl
    /\ \E tasks \in TaskTables : \E status \in StatusFilters : \E returns \in Returns :
          rc = [NoRc EXCEPT !.tasks = tasks, !.status = status, !.returns = returns]

RunRecalc ==
    /\ ~rc.done
    /\ rc' = Handle(rc)
    /\ UNCHANGED <<breaker, lock, now, pc, op, args, step, out, sub, ret, log, reqs, slept,
                   transientRun, failRun, fb, cl, ex, fe, dl, calls, ce, task_score, tk>>

NextRecalc == RunRecalc

SpecRecalc == InitRecalc /\ [][NextRecalc]_vars

----------------------------------------------------------------------------
(* The process_context_entries command, and SpecProcess: runs of it, one after *)
(* the other or overlapping, on every small ContextEntry table                 *)

NumEntries == 3
NumRuns == 2
MaxLimit == 2

\* the ids of the entries with processed_at null among entries 1..k, newest first
\* (ids are given in the order of created_at)
RECURSIVE UnprocessedFrom(_, _)
UnprocessedFrom(entries, k) ==
    IF k = 0 THEN <<>>
    ELSE (IF entries[k].processed_at = JNull THEN <<k>> ELSE <<>>)
             \o UnprocessedFrom(entries, k - 1)

\* ContextEntry.objects.filter(processed_at__isnull=True).order_by('-created_at')[:limit]
UnprocessedEntries(entries, limit) ==
    LET all == UnprocessedFrom(entries, Len(entries))
    IN  SubSeq(all, 1, IF limit < Len(all) THEN limit ELSE Len(all))

IdleRun == [pc |-> "idle", limit |-> 0, unprocessed_entries |-> <<>>, next |-> 1,
            analyzed |-> {}, fallbacks |-> {}, processed |-> {}]

\* handle() up to the loop: the query is evaluated once, at `if not unprocessed_entries`
StartRun(r, limit) ==
    /\ ce.runs[r].pc = "idle"
    /\ LET sel == UnprocessedEntries(ce.entries, limit)
       IN  ce' = [ce EXCEPT !.runs[r] =
                     [@ EXCEPT !.pc = IF sel = <<>> THEN "done" ELSE "loop",
                               !.limit = limit,
                               !.unprocessed_entries = sel]]
    /\ UNCHANGED <<breaker, lock, now, pc, op, args, step, out, sub, ret, log, reqs, slept,
                   transientRun, failRun, fb, cl, ex, fe, dl, rc, calls, task_score, tk>>

\* one pass of the loop body: analyze_context([entry]) returns its AI result or
\* its fallback result; entry.save() stores processed_at, or raises and the
\* except branch goes on with the next entry
ProcessEntry(r, isFallback, saved) ==
    /\ ce.runs[r].pc = "loop"
    /\ LET run == ce.runs[r]
           entry == run.unprocessed_entries[run.next]
       IN  ce' = [ce EXCEPT
                     !.entries[entry].processed_at = IF saved THEN JDateTime(0) ELSE @,
                     !.runs[r] =
                        [@ EXCEPT !.next = @ + 1,
                                  !.pc = IF run.next = Len(run.unprocessed_entries)
                                         THEN "done" ELSE "loop",
                                  !.analyzed = @ \cup {entry},
                                  !.fallbacks = IF isFallback THEN @ \cup {entry} ELSE @,
                                  !.processed = IF saved THEN @ \cup {entry} ELSE @]]
    /\ UNCHANGED <<breaker, lock, now, pc, op, args, step, out, sub, ret, log, reqs, slept,
                   transientRun, failRun, fb, cl, ex, fe, dl, rc, calls, task_score, tk>>

\* the entries that exist: stored by the views with processed_at set (analysis
\* and save went through) or left null
EntryTables == [1..NumEntries -> [processed_at : {JNull, JDateTime(0)}]]

InitProcess ==
    /\ NoCalls
    /\ tk = NoTk
    /\ task_score = priority_score_default
    /\ fb = NoFb
    /\ cl = NoCl
    /\ ex = NoEx
    /\ fe = NoFe
    /\ dl = NoDl
    /\ rc = NoRc
    /\ calls = [t \in Callers |-> <<>>]
    /\ \E entries \in EntryTables : ce = [entries |-> entries, runs |-> [r \in 1..NumRuns |-> IdleRun]]

NextProcess ==
    \/ \E r \in 1..NumRuns : \E limit \in 0..MaxLimit : StartRun(r, limit)
    \/ \E r \in 1..NumRuns : \E isFallback \in BOOLEAN : \E saved \in BOOLEAN :
          ProcessEntry(r, isFallback, saved)

SpecProcess == InitProcess /\ [][NextProcess]_vars

----------------------------------------------------------------------------
(* SpecTask: a Task instance whose status its owner sets and which is saved *)

MaxSaves == 4
MaxClockTicks == 4

SaveMutKeepsStamp(self, at) ==
    IF self.status = "completed" /\ ~Truthy(self.completed_at)
    THEN [self EXCEPT !.completed_at = JDateTime(at)]
    ELSE self
\* Task.save: the fields of the instance when super().save() writes them;
\* at is what timezone.now() returns
Save(self, at) ==
    IF self.status = "completed" /\ ~Truthy(self.completed_at)
    THEN [self EXCEPT !.completed_at = JDateTime(at)]
    ELSE IF self.status # "completed"
         THEN [self EXCEPT !.completed_at = JNull]
         ELSE self

InitTask ==
    /\ NoCalls
    /\ task_score = priority_score_default
    /\ ce = NoCe
    /\ calls = [t \in Callers |-> <<>>]
    /\ rc = NoRc
    /\ dl = NoDl
    /\ fe = NoFe
    /\ fb = NoFb
    /\ cl = NoCl
    /\ ex = NoEx
    /\ tk = NoTk

\* task.status = status; task.save()
SaveTask(status) ==
    /\ tk.saves < MaxSaves
    /\ tk' = [Save([tk EXCEPT !.status = status], tk.clock)
                 EXCEPT !.saves = tk.saves + 1, !.saved_at = tk.clock]
    /\ UNCHANGED <<breaker, lock, now, pc, op, args, step, out, sub, ret, log, reqs, slept,
                   transientRun, failRun, fb, cl, ex, fe, dl, rc, calls, ce, task_score>>

\* time passes between two saves
TaskTick ==
    /\ tk.clock < MaxClockTicks
    /\ tk' = [tk EXCEPT !.clock = tk.clock + 1]
    /\ UNCHANGED <<breaker, lock, now, pc, op, args, step, out, sub, ret, log, reqs, slept,
                   transientRun, failRun, fb, cl, ex, fe, dl, rc, calls, ce, task_score>>

NextTask ==
    \/ \E status \in Statuses : SaveTask(status)
    \/ TaskTick

SpecTask == InitTask /\ [][NextTask]_vars

----------------------------------------------------------------------------
(* The result schemas: the keys of each operation's AI-path result *)

AnalysisFields ==
    {"extracted_tasks", "urgency_indicators", "mentioned_deadlines", "priority_signals",
     "context_summary", "workload_assessment", "key_themes"}
PriorityFields ==
    {"priority_score", "suggested_priority", "reasoning", "urgency_factors",
     "suggested_deadline", "estimated_duration_refined", "context_relevance",
     "recommended_actions"}
OptionalFields == {"suggested_deadline", "estimated_duration_refined"}
EnhancementFields ==
    {"enhanced_description", "suggested_tags", "suggested_category",
     "breakdown_suggestions", "resource_suggestions", "difficulty_assessment",
     "context_connections"}
FieldsOf(o) ==
    CASE o = "analyze_context" -> AnalysisFields
      [] o = "prioritize_task" -> PriorityFields
      [] OTHER -> EnhancementFields

IsFallback(val) == "is_fallback" \in DOMAIN val /\ val["is_fallback"] = JBool(TRUE)
\* caller t's call of a public operation is over
Done(t) == pc[t] = "done"
\* neither the whole text nor the part from the first "{" to the last "}" parses
Unparsable(text) == text # <<>> /\ Extract(text) = ParseFailed(text)

----------------------------------------------------------------------------
(* Claims *)

\* C1: each of analyze_context, prioritize_task, enhance_task and
\* get_task_recommendations returns a result object to its caller and never raises,
\* for every input, backend behaviour and breaker state.
C1_NeverRaises == \A t \in Callers : Done(t) => ret[t].exc = ""

\* C2: a call of prioritize_task made while the breaker is OPEN and reset_timeout has
\* not elapsed returns the fallback PriorityRecommendation (is_fallback = true),
\* without invoking the inference client and without any retry delay.
C2_OpenBreakerGivesFallback ==
    [][\A t \in Callers :
          (/\ pc[t] = "enter" /\ op[t] = "prioritize_task"
           /\ StillOpen(breaker, now)
           /\ pc'[t] = "done")
          => (/\ ret'[t].exc = ""
              /\ IsFallback(ret'[t].val)
              /\ reqs'[t] = <<>>
              /\ slept'[t] = <<>>)]_vars

\* C3: after failure_threshold consecutive calls whose inference attempts all failed
\* with a timeout or a connection error, the breaker is OPEN (so that later calls are
\* short-circuited until reset_timeout has elapsed).
C3_TransientFailuresOpenBreaker == transientRun >= FailMax => breaker.state = "open"

\* C4: while the breaker is HALF_OPEN exactly one caller, the trial, is inside a
\* breaker-wrapped method; when the trial ends with a return the breaker becomes
\* CLOSED with failure count 0, and when it ends with a counted exception the
\* breaker becomes OPEN with opened_at set to the current time.
C4_SingleTrial ==
    /\ [](breaker.state = "half-open"
            => Cardinality({t \in Callers : pc[t] \in {"body", "exit"}}) = 1)
    /\ [][\A t \in Callers :
            (breaker.state = "half-open" /\ pc[t] = "exit" /\ pc'[t] # "exit")
            => IF out[t].exc = ""
               THEN breaker'.state = "closed" /\ breaker'.fail_counter = 0
               ELSE breaker'.state = "open" /\ breaker'.opened_at = now]_vars
\* a trial is about to end while another caller waits at the breaker
C4_Witness ==
    /\ breaker.state = "half-open"
    /\ \E t \in Callers : \E u \in Callers :
          t # u /\ pc[t] = "exit" /\ pc[u] = "enter" /\ out[t].exc # ""

\* C5: when the model's text is unparsable, analyze_context, prioritize_task and
\* enhance_task return their fallback result, not an AI-path result, and the
\* inference client is not called again.
C5_UnparsableGivesFallback ==
    \A t \in Callers :
        (Done(t) /\ op[t] \in Methods /\ out[t].req.raised = ""
            /\ ~out[t].req.none /\ Unparsable(out[t].req.text))
        => (ret[t].via \in {"fallback", "emergency"} /\ reqs[t] = out[t].req.attempts)

\* C6: every result analyze_context, prioritize_task or enhance_task produces on a
\* fallback path carries is_fallback = true and every required field of the
\* AI-path result.
C6_FallbackIsMarked ==
    \A t \in Callers :
        (Done(t) /\ op[t] \in Methods /\ ret[t].via \in {"fallback", "emergency"})
        => (IsFallback(ret[t].val) /\ FieldsOf(op[t]) \subseteq DOMAIN ret[t].val)

\* C7: every object analyze_context, prioritize_task or enhance_task returns holds
\* each required field with a non-null value (suggested_deadline and
\* estimated_duration_refined excepted).
C7_RequiredFieldsNonNull ==
    \A t \in Callers :
        (Done(t) /\ op[t] \in Methods /\ ret[t].exc = "")
        => \A f \in FieldsOf(op[t]) \ OptionalFields :
              f \in DOMAIN ret[t].val /\ ~IsNone(ret[t].val[f])

\* C8: every call of the four operations that returns appends exactly one
\* ProcessingRecord (here: even when every write to AIProcessingLog succeeds).
C8_OneRecordPerCall ==
    \A t \in Callers :
        (Done(t) /\ ret[t].exc = "" /\ \A i \in 1..Len(log[t]) : log[t][i].stored)
        => Len(Rows(t)) = 1

\* C9: in get_task_recommendations a sub-step that fails, for any cause including an
\* open breaker, does not abort the composition: prioritization and enhancement are
\* still executed and their results are the ones in the combined result.
C9_SubStepFailureIsLocal ==
    \A t \in Callers :
        (Done(t) /\ op[t] = "get_task_recommendations" /\ args[t].task_data.isdict)
        => (/\ sub[t]["prioritize_task"].via \notin {"none", "raise"}
            /\ sub[t]["enhance_task"].via \notin {"none", "raise"}
            /\ ret[t].val["priority_score"] = sub[t]["prioritize_task"].val["priority_score"]
            /\ ret[t].val["enhanced_description"]
                  = sub[t]["enhance_task"].val["enhanced_description"])

\* C10: fallback prioritization is monotonic in urgency: urgent and due today scores
\* at least urgent and due in 10 days, which scores at least low and due in 10 days.
UrgentDueToday(task) ==
    task.priority = JStr("urgent") /\ task.deadline.t = "datetime"
        /\ task.deadline.n \in {-12, 0, 12}
DueInTenDays(task, priority) ==
    task.priority = JStr(priority) /\ task.deadline.t = "datetime"
        /\ task.deadline.n \in {228, 240, 252}
FbScore(i) == fb.results[i].val["priority_score"].n
C10_FallbackMonotonic ==
    fb.results # <<>> =>
        /\ (UrgentDueToday(fb.tasks[1]) /\ DueInTenDays(fb.tasks[2], "urgent"))
              => FbScore(1) >= FbScore(2)
        /\ (DueInTenDays(fb.tasks[1], "urgent") /\ DueInTenDays(fb.tasks[2], "low"))
              => FbScore(1) >= FbScore(2)

\* C11: for every task priority and every deadline the priority_score of fallback
\* prioritization is at most max_fallback_priority_score.
C11_FallbackScoreAtMostCeiling ==
    \A i \in 1..Len(fb.results) : FbScore(i) <= max_fallback_priority_score

\* C12: when every attempt of the inference client fails with a timeout or a
\* connection error, prioritize_task returns the fallback result (is_fallback =
\* true), and for a task with priority 'urgent' and deadline = now its
\* priority_score is 0.8.
UrgentDueNow(task) == task.priority = JStr("urgent") /\ task.deadline = JDateTime(0)
C12_AllAttemptsFailGivesFallback ==
    \A t \in Callers :
        (Done(t) /\ op[t] = "prioritize_task" /\ AllTransient(out[t].req))
        => (/\ ret[t].exc = ""
            /\ ret[t].via = "fallback"
            /\ IsFallback(ret[t].val)
            /\ UrgentDueNow(args[t].task) => ret[t].val["priority_score"] = JNum(80))
\* prioritize_task of an urgent task due now is over, after three failed attempts
C12_Witness ==
    \E t \in Callers :
        /\ Done(t) /\ op[t] = "prioritize_task" /\ AllTransient(out[t].req)
        /\ UrgentDueNow(args[t].task)
        /\ Len(reqs[t]) = max_retries
        /\ ret[t].val["priority_score"] = JNum(80)

\* C13: analyze_context called with an empty entry list returns workload_assessment
\* 'light' with extracted_tasks, urgency_indicators, mentioned_deadlines, key_themes
\* and the three priority_signals lists empty, and makes no call to the inference
\* client.
C13_EmptyContextIsFixed ==
    \A t \in Callers :
        (Done(t) /\ op[t] = "analyze_context" /\ args[t].entries = "empty")
        => (/\ ret[t].exc = ""
            /\ ret[t].val["workload_assessment"] = JStr("light")
            /\ \A f \in {"extracted_tasks", "urgency_indicators", "mentioned_deadlines",
                          "key_themes"} : ret[t].val[f] = JList(<<>>)
            /\ ret[t].val["priority_signals"] = JDict("empty signals")
            /\ reqs[t] = <<>>)

\* C14: on the AI path of prioritize_task the returned priority_score lies in [0,1]
\* whatever the model returned: a number is clamped to the nearest bound, anything
\* else (a string, null, no score at all) becomes 0.5.
ModelScore(t) == Get(Extract(out[t].req.text).d, "priority_score", JStr("absent"))
Clamped(raw) ==
    IF raw.t = "num"
    THEN IF raw.n > 100 THEN 100 ELSE IF raw.n < 0 THEN 0 ELSE raw.n
    ELSE 50
Prose == {"x", "[]"}
\* text[i..j] is an object and everything around it is prose
WrapsObject(text, i, j) ==
    /\ i < j /\ text[i] = "{" /\ text[j] = "}"
    /\ \A k \in 1..Len(text) :
          IF k < i \/ k > j THEN text[k] \in Prose
          ELSE k \in {i, j} \/ text[k] \in MemberTokens
NoBraces(text) == \A k \in 1..Len(text) : text[k] \notin {"{", "}"}
C15_ExtractorContract ==
    ex.stage = "parsed" =>
        /\ JsonLoads(ex.text).ok
              => ex.parsed = [isdict |-> JsonLoads(ex.text).isdict, d |-> JsonLoads(ex.text).d,
                              v |-> JsonLoads(ex.text).v]
        /\ \A i \in 1..Len(ex.text) : \A j \in 1..Len(ex.text) :
              WrapsObject(ex.text, i, j)
                  => ex.parsed = [isdict |-> TRUE, d |-> ObjOf(SubSeq(ex.text, i + 1, j - 1)),
                                  v |-> JObject]
        /\ NoBraces(ex.text)
              => (/\ IsMarker(ex.parsed)
                  /\ ex.parsed.d["raw_response"] = JWords(ex.text))

\* C16: the default-fill step is idempotent: applied to an object it has already
\* filled it changes no field, whether the fields of the parsed object were missing,
\* null or present.
C16_FillIsIdempotent == ex.stage = "filled" => ex.refilled = ex.filled
\* the first fill replaced a null, added a missing field and kept a present one
C16_Witness ==
    /\ ex.stage = "filled"
    /\ ex.refilled = ex.filled
    /\ \E k \in DOMAIN ex.parsed.d : IsNone(ex.parsed.d[k]) /\ ~IsNone(ex.filled[k])
    /\ \E k \in DOMAIN ex.filled : k \notin DOMAIN ex.parsed.d
    /\ \E k \in DOMAIN ex.parsed.d : ~IsNone(ex.parsed.d[k]) /\ ex.filled[k] = ex.parsed.d[k]

\* C17: one _make_request call ends after at most max_retries HTTP attempts, makes a
\* further attempt only after a timeout, a connection error or another request
\* error, and when all its attempts failed returns no text instead of raising.
C17_BoundedRetries ==
    cl.done =>
        LET r == cl.result
        IN  /\ Len(r.attempts) <= max_retries
            /\ \A i \in 1..(Len(r.attempts) - 1) : r.attempts[i] \in {"timeout", "conn", "http"}
            /\ (\A i \in 1..Len(r.attempts) : r.attempts[i] # "ok")
                  => (r.none /\ r.raised = "")

\* C18: within one _make_request call the delay before attempt k+1 is larger than
\* the delay before attempt k, for timeouts, connection errors and other request
\* errors alike, and every delay is at most retry_delay * max_retries.
C18_BackoffGrows ==
    cl.done =>
        LET sleeps == cl.result.sleeps
        IN  /\ \A k \in 1..(Len(sleeps) - 1) : sleeps[k + 1] > sleeps[k]
            /\ \A k \in 1..Len(sleeps) : sleeps[k] <= retry_delay * max_retries

\* C19: a response whose envelope is invalid (no 'choices', empty 'choices', no
\* 'message', no 'content') ends the _make_request call: no further attempt, no
\* backoff delay after it, and the call returns no text.
C19_BadEnvelopeIsTerminal ==
    cl.done =>
        LET r == cl.result
        IN  \A i \in 1..Len(r.attempts) :
                r.attempts[i] \in BadEnvelopes
                => (/\ i = Len(r.attempts)
                    /\ Len(r.sleeps) = i - 1
                    /\ r.none /\ r.raised = "")
\* a request error, one delay, then a response without 'choices': the call is over
\* although an attempt was left
C19_Witness ==
    /\ cl.done
    /\ cl.result.attempts = <<"http", "nochoices">>
    /\ cl.result.sleeps = <<retry_delay>>
    /\ cl.plan[3].kind = "ok"
    /\ cl.result.none

\* C20: with callers completing concurrently, the breaker's failure count equals the
\* number of counted failures since the last success (no update is lost), and the
\* breaker is never CLOSED with a count at or above fail_max.
C20_NoLostUpdate ==
    /\ breaker.fail_counter = failRun
    /\ breaker.state = "closed" => breaker.fail_counter < FailMax
\* a caller is about to have the failure counted that opens the breaker while
\* another caller waits for the breaker's lock
C20_Witness ==
    /\ breaker.state = "closed"
    /\ breaker.fail_counter = FailMax - 1
    /\ \E t \in Callers : \E u \in Callers :
          /\ t # u
          /\ pc[t] = "exit" /\ out[t].exc # "" /\ IsSystemError(out[t].exc)
          /\ pc[u] = "enter"

\* C21: while one caller is inside a breaker-wrapped method, waiting on the inference
\* call or in a retry backoff delay, another caller that arrives at the breaker can
\* enter: the waiting caller holds no lock that blocks it.
C21_WaitingBlocksNobody ==
    \A t \in Callers : \A u \in Callers :
        (t # u /\ pc[t] = "body" /\ pc[u] = "enter") => CanAcquire(lock, u)

\* C22: fallback enhancement matches the keyword table against the title
\* case-insensitively and returns at most 3 tags, in table order, each at most once;
\* enhanced_description is the task's description when it has one and the
\* synthesized 'Complete task: <title>' otherwise.
TagPos(tag) == CHOOSE i \in 1..Len(TagOrder) : TagOrder[i] = tag
\* a word of the title contains, in lower case, a keyword of the tag
Mentions(title, tag) ==
    title.t = "str" /\ \E i \in 1..Len(title.l) : WordKeywords[title.l[i]] \cap TagKeywords[tag] # {}
FeTitle == Get(fe.task_data.d, "title", JStr(""))
FeDescription == Get(fe.task_data.d, "description", JStr(""))
C22_FallbackEnhancementContract ==
    fe.done =>
        LET tags == fe.result.val["suggested_tags"].l
        IN  /\ fe.result.exc = ""
            /\ Len(tags) <= 3
            /\ \A i \in 1..Len(tags) :
                  /\ tags[i] \in DOMAIN TagKeywords
                  /\ Mentions(FeTitle, tags[i])
                  /\ \A j \in 1..(i - 1) : TagPos(tags[j]) < TagPos(tags[i])
            /\ \A tag \in DOMAIN TagKeywords :
                  (Mentions(FeTitle, tag) /\ \A i \in 1..Len(tags) : tags[i] # tag)
                  => (Len(tags) = 3 /\ TagPos(tags[3]) < TagPos(tag))
            /\ fe.result.val["enhanced_description"]
                  = IF Truthy(FeDescription) THEN FeDescription
                    ELSE [t |-> "str", n |-> 0, s |-> "Complete task: ", l |-> FeTitle.l]

\* C23: from the call of enhance_task to its return, on the AI path and on the
\* fallback path, the caller's task_data (its priority, deadline and
\* estimated_duration included) stays as the caller passed it.
InEnhanceTask(t) == op[t] = "enhance_task" /\ pc[t] \in {"enter", "body", "exit"}
WriteFailed(t) == \E i \in 1..Len(out[t].rows) : ~out[t].rows[i].stored
SameEnd(a, b) == a.exc = b.exc /\ a.via = b.via /\ a.val = b.val /\ a.req = b.req
C24_TelemetryFailureChangesNothing ==
    \A t \in Callers :
        (pc[t] = "exit" /\ WriteFailed(t)) =>
            /\ out[t].exc = ""
            /\ \E plan \in Plans \cup RecPlans :
                  /\ MethodOutcome(t, plan, FALSE) = out[t]
                  /\ SameEnd(MethodOutcome(t, plan, TRUE), out[t])
C24_Witness ==
    /\ pc[1] = "exit"
    /\ WriteFailed(1)
    /\ out[1].via = "ai"
    /\ out[1].exc = ""

\* C25 as stated: the fallback priority score is the base score of the task's
\* priority (low 0.3, medium 0.5, high 0.7, urgent 0.9) plus exactly one deadline
\* boost: +0.3 when the deadline is today or past, +0.2 when it is within 2 days,
\* +0.1 when it is within 7 days, nothing when it is further away or absent.
NamedBase == [low |-> 30, medium |-> 50, high |-> 70, urgent |-> 90]
\* whole days from now to the deadline, rounded down
WholeDays(deadline) ==
    CHOOSE d \in (0 - MaxHalfDaysPast)..MaxHalfDaysAhead :
        24 * d <= deadline.n /\ deadline.n < 24 * (d + 1)
BoostOf(deadline) ==
    IF deadline = JNull THEN 0
    ELSE IF WholeDays(deadline) > 7 THEN 0
    ELSE IF WholeDays(deadline) > 2 THEN 10
    ELSE IF WholeDays(deadline) > 0 THEN 20
    ELSE 30
\* the tasks the statement is about: a named priority, a deadline that is a date
\* and time or is absent
Covered(task) ==
    /\ task.priority.t = "str"
    /\ task.priority.s \in DOMAIN NamedBase
    /\ task.deadline.t \in {"datetime", "null"}
DurationThresholds == {120, 240}
Exceeded(task) ==
    IF task.estimated_duration = JNull THEN {}
    ELSE {m \in DurationThresholds : task.estimated_duration.n > m}
C26_DeadlineHeuristic ==
    dl.done =>
        /\ dl.result["is_fallback"] = JBool(TRUE)
        /\ dl.result["suggested_deadline"].t = "datetime"
        /\ LET hours == dl.result["suggested_deadline"].n - dl.at
               extra == 24 * Cardinality(Exceeded(dl.task))
           IN  /\ dl.task.priority = JStr("urgent") => hours = 24 + extra
               /\ dl.task.priority = JStr("high") => hours = 72 + extra
               /\ dl.task.priority = JStr("medium") => hours = 168 + extra
               /\ dl.task.priority = JStr("low") => hours = 336 + extra
\* a deadline was suggested for a high-priority task of 4.5 hours: 3 + 2 days
C26_Witness ==
    /\ dl.done
    /\ dl.task.priority = JStr("high")
    /\ dl.task.estimated_duration = JNum(270)
    /\ dl.result["suggested_deadline"] = JDateTime(dl.at + 120)

\* C27: a run of recalculate_priorities with status filter S ends without an
\* exception and leaves, for every task with status S (every task when S is
\* 'all'), the priority_score that prioritize_task returned for it; a task whose
\* processing raised does not keep the others from being updated.
C27_RecalculateUpdatesEverySelectedTask ==
    rc.done =>
        /\ rc.exc = ""
        /\ \A i \in 1..Len(rc.tasks) :
              ((rc.status = "all" \/ rc.tasks[i].status = rc.status) /\ ~rc.returns[i].raises)
              => rc.tasks[i].priority_score = rc.returns[i].score

SubStepOrder(t) ==
    IF args[t].entries = "some"
    THEN <<"analyze_context", "prioritize_task", "enhance_task">>
    ELSE <<"prioritize_task", "enhance_task">>
C29_SubStepsInOrder ==
    \A t \in Callers :
        op[t] = "get_task_recommendations" =>
            /\ Len(calls[t]) <= Len(SubStepOrder(t))
            /\ \A i \in 1..Len(calls[t]) :
                  /\ calls[t][i].m = SubStepOrder(t)[i]
                  /\ calls[t][i].m # "analyze_context" =>
                        calls[t][i].ctx = IF args[t].entries = "some"
                                          THEN sub[t]["analyze_context"].val
                                          ELSE EmptyDict
            /\ (pc[t] = "done" /\ ret[t].via = "ai") => Len(calls[t]) = Len(SubStepOrder(t))
\* get_task_recommendations returned its combined result after the three
\* sub-steps, the later two with the analysis of the entries
C29_Witness ==
    /\ op[1] = "get_task_recommendations"
    /\ pc[1] = "done"
    /\ ret[1].via = "ai"
    /\ Len(calls[1]) = 3
    /\ calls[1][3].ctx # EmptyDict
    /\ calls[1][3].ctx = sub[1]["analyze_context"].val

\* C30: a run of process_context_entries handles at most --limit entries, all of
\* them selected with processed_at null; every entry it handled without an
\* exception has processed_at set, also when analyze_context returned its
\* fallback result; and no entry is analyzed by more than one run.
Handled(r) ==
    {ce.runs[r].unprocessed_entries[i] : i \in 1..(ce.runs[r].next - 1)}
C30_EachEntryAnalyzedByOneRun ==
    /\ \A r \in 1..Len(ce.runs) :
          /\ Cardinality(ce.runs[r].analyzed) <= ce.runs[r].limit
          /\ ce.runs[r].analyzed = Handled(r)
          /\ \A e \in ce.runs[r].processed : ce.entries[e].processed_at # JNull
    /\ \A r \in 1..Len(ce.runs) : \A q \in 1..Len(ce.runs) :
          r # q => ce.runs[r].analyzed \cap ce.runs[q].analyzed = {}

\* C31: after any sequence of analyze_context calls with a list, prioritize_task
\* calls and enhance_task calls with a dict, whatever the backend does, the
\* breaker is CLOSED with failure count 0, no method ended with an exception and
\* no call was rejected by the breaker.
C31_InferenceFailuresNotCounted ==
    /\ breaker.state = "closed"
    /\ breaker.fail_counter = 0
    /\ \A t \in Callers : out[t].exc = "" /\ ret[t].exc = ""
\* the third call in a row whose attempts all timed out or could not connect has
\* returned its fallback
C31_Witness ==
    /\ transientRun = FailMax
    /\ pc[1] = "done"
    /\ ret[1].via = "fallback"
    /\ breaker.state = "closed"

\* C32: every exception that leaves analyze_context, prioritize_task or
\* enhance_task is counted by the one breaker they share; after 3 consecutive
\* such exceptions the breaker is not CLOSED, and a call of any of the three
\* that arrives while it is OPEN and reset_timeout has not elapsed is rejected
\* with CircuitBreakerError, without running and without changing the breaker.
Rejecting == breaker.state = "open" /\ now < breaker.opened_at + ResetTimeout
C32_SharedBreakerCountsEscapes ==
    [][/\ breaker'.state = "closed" => breaker'.fail_counter = failRun'
       /\ failRun' >= FailMax => breaker'.state # "closed"
       /\ \A t \in Callers :
             (op[t] \in Methods /\ pc[t] = "enter" /\ pc'[t] # "enter" /\ Rejecting)
             => /\ pc'[t] = "done"
                /\ ret'[t].exc = "CircuitBreakerError"
                /\ breaker' = breaker
                /\ log'[t] = <<>> /\ reqs'[t] = <<>>]_vars
\* three analyze_context(None) calls opened the breaker, and enhance_task with a
\* dict was rejected
C32_Witness ==
    /\ failRun = FailMax
    /\ breaker.state = "open"
    /\ op[1] = "enhance_task"
    /\ args[1].task_data = FullData
    /\ pc[1] = "done"
    /\ ret[1].exc = "CircuitBreakerError"

\* C33: with a dict task_data get_task_recommendations never raises; when a
\* sub-step raised (the breaker's rejection included) no later sub-step runs and
\* the result is the combined fallback: success = false, is_fallback = true,
\* priority_score 0.5, suggested_priority 'medium'; otherwise the combined
\* result has success = true and no is_fallback, also when sub-steps returned
\* their own fallbacks.
SubStepRaised(t) == {m \in Methods : sub[t][m].exc # ""}
C33_RecommendationsNeverRaise ==
    \A t \in Callers :
        (Done(t) /\ op[t] = "get_task_recommendations" /\ args[t].task_data.isdict) =>
            /\ ret[t].exc = ""
            /\ SubStepRaised(t) # {} =>
                  /\ Cardinality(SubStepRaised(t)) = 1
                  /\ calls[t][Len(calls[t])].m \in SubStepRaised(t)
                  /\ ret[t].val["success"] = JBool(FALSE)
                  /\ ret[t].val["is_fallback"] = JBool(TRUE)
                  /\ ret[t].val["priority_score"] = JNum(50)
                  /\ ret[t].val["suggested_priority"] = JStr("medium")
            /\ SubStepRaised(t) = {} =>
                  /\ ret[t].val["success"] = JBool(TRUE)
                  /\ "is_fallback" \notin DOMAIN ret[t].val
                  /\ Len(calls[t]) = IF args[t].entries = "some" THEN 3 ELSE 2
\* the breaker rejected the prioritization of an urgent task: combined fallback
C33_Witness ==
    /\ op[1] = "get_task_recommendations"
    /\ args[1].task_data = FullData
    /\ pc[1] = "done"
    /\ sub[1]["prioritize_task"].exc = "CircuitBreakerError"
    /\ ret[1].val["success"] = JBool(FALSE)
    /\ ret[1].val["priority_score"] = JNum(50)

\* C34: every priority_score that prioritize_task returns, on the AI path, the
\* fallback path and the emergency fallback path, is a number in [0,1], and the
\* priority_score the prioritization view stores on the task stays in [0,1].
C34_StoredScoreInUnitInterval ==
    /\ task_score \in 0..100
    /\ \A t \in Callers :
          (Done(t) /\ op[t] = "prioritize_task" /\ ret[t].exc = "") =>
              /\ ret[t].via \in {"ai", "fallback", "emergency"}
              /\ ret[t].val["priority_score"].t = "num"
              /\ ret[t].val["priority_score"].n \in 0..100
\* the view stored the clamped score 1.0 of a model that answered 1.7
C34_Witness ==
    /\ pc[1] = "idle"
    /\ op[1] = "prioritize_task"
    /\ ret[1].via = "ai"
    /\ Len(reqs[1]) = 1
    /\ task_score = 100

\* C35: when the model returns non-empty text that the extractor cannot parse,
\* analyze_context, prioritize_task and enhance_task return the operation's defaults
\* together with the extractor's 'error' and 'raw_response' keys and without
\* is_fallback, and the record of that call has success = true.
DefaultsOf(t) ==
    CASE op[t] = "analyze_context" -> AnalysisDefaults
      [] op[t] = "prioritize_task" ->
            Put(PrioritizationDefaults(args[t].task), "priority_score", JNum(50))
      [] OTHER -> EnhancementDefaults(args[t].task_data.d)
GotUnparsable(t) ==
    /\ pc[t] = "exit"
    /\ op[t] \in Methods
    /\ out[t].req.raised = ""
    /\ ~out[t].req.none
    /\ Unparsable(out[t].req.text)
C35_UnparsableTextGivesDefaults ==
    \A t \in Callers :
        GotUnparsable(t) =>
            /\ out[t].exc = ""
            /\ out[t].via = "ai"
            /\ DOMAIN out[t].val = FieldsOf(op[t]) \cup {"error", "raw_response"}
            /\ \A f \in FieldsOf(op[t]) : out[t].val[f] = DefaultsOf(t)[f]
            /\ out[t].val["error"] = JStr("Failed to parse JSON response")
            /\ out[t].val["raw_response"] = JWords(out[t].req.text)
            /\ Len(out[t].rows) = 1
            /\ out[t].rows[1].success = TRUE
\* enhance_task got prose from the model and is about to return the description it
\* was given, with the extractor's marker keys, its record stored
C35_Witness ==
    /\ GotUnparsable(1)
    /\ op[1] = "enhance_task"
    /\ out[1].req.text = ProseText
    /\ out[1].val["enhanced_description"] = JStr("weekly")
    /\ "raw_response" \in DOMAIN out[1].val
    /\ out[1].rows[1].stored

\* C36: when the model's text parses as a value that is not an object (a list, a
\* number, a string, a boolean or null), the extractor returns that value unchanged,
\* and analyze_context, prioritize_task and enhance_task each return their fallback
\* result and record success = false.
GotNonObject(t) ==
    /\ pc[t] = "exit"
    /\ op[t] \in Methods
    /\ out[t].req.raised = ""
    /\ ~out[t].req.none
    /\ out[t].req.text \in NonObjectTexts
WasCompleted == tk.saves > 0 /\ tk.status = "completed"
C38_CompletedAtFollowsStatus ==
    [][tk'.saves = tk.saves + 1 =>
          /\ ~IsNone(tk'.completed_at) <=> tk'.status = "completed"
          /\ (tk'.status = "completed" /\ ~WasCompleted)
                => tk'.completed_at = JDateTime(tk.clock)
          /\ (tk'.status = "completed" /\ WasCompleted)
                => tk'.completed_at = tk.completed_at
          /\ tk'.status # "completed" => tk'.completed_at = JNull]_vars
\* a task completed at time 1 and last saved, still completed, at time 3
C38_Witness ==
    /\ tk.status = "completed"
    /\ tk.completed_at = JDateTime(1)
    /\ tk.saved_at = 3

====
